---- MODULE Spec2Model ----
(***************************************************************************)
(* wifisocket: the UDP protocol engine of wifisocket.py.                   *)
(*                                                                         *)
(* The module models one caller thread that issues commands one after the  *)
(* other (the engine is synchronous and blocking); in SpecConfig a second  *)
(* thread assigns to the module globals meanwhile.  A command call walks   *)
(* through the statements of the public function (switch, switch_state,    *)
(* find_sockets) and of the helpers it calls (assemble_command,            *)
(* create_socket, send).  The network is the environment: every sendto     *)
(* can succeed or raise OSError, every recv can time out, raise another    *)
(* OSError, or deliver any datagram of the set Datagrams.                  *)
(*                                                                         *)
(* Representation of Python values:                                        *)
(*   bytes          a sequence of integers 0..255                          *)
(*   hex string     a sequence of hex digits 0..15 (the blanks between     *)
(*                  the byte groups, which bytes.fromhex skips, are left   *)
(*                  out)                                                   *)
(*   'a.b.c.d'      the tuple <<a, b, c, d>>                               *)
(*   other values   tagged records, see Str, Bytes, Exc, Bool, None        *)
(* time.sleep(0.5) after a bad frame only passes time and is not a step.   *)
(***************************************************************************)
EXTENDS Integers, Sequences, FiniteSets, TLC

VARIABLES
    repeat,       \* module global `repeat` (wifisocket.py:236)
    pc,           \* position of the caller thread in the current call
    op,           \* the public function being executed, "none" when idle
    args,         \* its arguments
    cmd,          \* local `cmd`: the assembled command, a hex string
    s,            \* the endpoint made for this call: "none", "open", "closed"
    open,         \* number of UDP endpoints created and not closed
    n,            \* loop variable of `for n in range(repeat)`
    message,      \* local `message` of send()
    ret,          \* the value send() returned: [success, message]
    result,       \* how the public call ended: returned value or raised
    socket_data,  \* local `socket_data` of find_sockets
    sent,         \* history: datagrams handed to sendto in this call
    recvs,        \* history: recv calls made in this call
    hist,         \* history: outcome of every attempt / recv of this call
    calls,        \* history: number of calls started
    inner,        \* the function that called send(), when it is not `op`
    data_,        \* local `data` of activate_timer
    dev,          \* what the device stores: switch, timers, absence mode
    inflight,     \* replies of the device that are on their way
    now,          \* datetime.now(): hour, minute and second of the day
    tz,           \* time.timezone, the default delta_time, in seconds
    fin,          \* input of a function that is checked on its own
    fout,         \* its output
    lost,         \* history: attempts that ended in a timeout, all calls
    acked,        \* history: on_off of the latest switch if it returned True
    before,       \* history: the call before the current one and how it ended
    dev0,         \* history: the device when the current call started
    config,       \* module globals device, packet, udp_port, timeout
    used,         \* the settings when the current call started, and where
                  \* the call keeps the values it has read: the endpoint's
                  \* timeout and port, `address`, range(repeat)
    assigned      \* assignments to the module globals made by a second thread

\* the variables of the device, the clock and the stand-alone functions
xvars == <<inner, data_, dev, inflight, now, tz, fin, fout, lost, acked,
           before, dev0, config, used, assigned>>

vars == <<repeat, pc, op, args, cmd, s, open, n, message, ret, result,
          socket_data, sent, recvs, hist, calls, xvars>>

----------------------------------------------------------------------------
(* Bounds of the model *)

MaxRepeat == 3     \* largest value given to the global `repeat`
MaxReplies == 3    \* datagrams delivered during one find_sockets call
MaxCalls == 2      \* calls made one after the other
MaxDevCalls == 3   \* calls made one after the other to a device that answers
MaxLost == 2       \* attempts of one behaviour that end in a timeout
MaxCommandCalls == 3   \* calls of the timer or absence commands, one after the other
MaxAssignments == 2   \* assignments to the module globals by the second thread

----------------------------------------------------------------------------
(* Python values *)

Str(x) == [kind |-> "str", str |-> x]
Bytes(b) == [kind |-> "bytes", bytes |-> b]
Exc(e) == [kind |-> "exc", exc |-> e]
Bool(b) == [kind |-> "bool", bool |-> b]
None == [kind |-> "None"]
Unbound == [kind |-> "unbound"]
List(l) == [kind |-> "list", list |-> l]

Returned(v) == [kind |-> "returned", val |-> v]
Raised(e) == [kind |-> "raised", exc |-> e]
Running == [kind |-> "running"]

Min(a, b) == IF a < b THEN a ELSE b

\* Python slice m[a:b] (0-based, half open, clamped to the length)
Slice(m, a, b) == SubSeq(m, a + 1, Min(b, Len(m)))

\* Python slice m[a:]
SliceFrom(m, a) == SubSeq(m, a + 1, Len(m))

\* m[i] raises IndexError unless 0 <= i < len(m)
HasIndex(m, i) == i < Len(m)
Index(m, i) == m[i + 1]

\* bytes.hex(): two hex digits per byte
Hex(b) ==
    [i \in 1..(2 * Len(b)) |->
        IF i % 2 = 1 THEN b[(i + 1) \div 2] \div 16 ELSE b[i \div 2] % 16]

\* bytes.fromhex(): raises ValueError on an odd number of digits
FromHexOk(h) == Len(h) % 2 = 0
FromHex(h) == [i \in 1..(Len(h) \div 2) |-> 16 * h[2 * i - 1] + h[2 * i]]

----------------------------------------------------------------------------
(* Constants of wifisocket.py *)

PASSKEY == <<48, 49, 50, 51, 52, 53, 54, 55, 56, 57, 97, 98, 99, 100, 101, 102>>
INITIALIZATION_VECTOR == PASSKEY

SWS_A1 == Hex(<<193, 17, 113, 80>>)
DIS_120 == Hex(<<194, 17, 146, 221>>)

\* DEFAULTS: device, packet, udp_port, timeout (repeat is DEFAULT_REPEAT)
DEFAULTS ==
    [device |-> SWS_A1, packet |-> Hex(<<255, 255>>), udp_port |-> 8530,
     timeout |-> 2]

\* the module globals, read where the code reads them
device == config.device
packet == config.packet
udp_port == config.udp_port
timeout == config.timeout

CMD_INIT(mac) == Hex(<<1, 64>>) \o mac

\* variant: the header carries the default packet number and device code
CMD_HEADER_Defaults == Hex(<<0>>) \o DEFAULTS.packet \o DEFAULTS.device

CMD_HEADER == Hex(<<0>>) \o packet \o device
CMD_SEARCH(mac) == Hex(<<35>>) \o mac \o Hex(<<2, 2>>)
CMD_SWITCH(switch_) == Hex(<<1>>) \o switch_ \o Hex(<<4, 4, 4, 4>>)
CMD_GET_STATE == Hex(<<2, 0, 0, 0, 0, 4, 4, 4, 4>>)

SWITCH_ON == Hex(<<0, 0, 255, 255>>)
SWITCH_OFF == Hex(<<0, 0, 0, 255>>)

BROADCAST_MAC == Hex(<<255, 255, 255, 255, 255, 255>>)
BROADCAST_IP == <<255, 255, 255, 255>>

REPLY_MARKER == 66
BLOCK_SIZE == 16

----------------------------------------------------------------------------
(* AES/CBC with key = IV = PASSKEY.  The block cipher itself is the        *)
(* library's; it is modelled by a byte-wise keyed permutation, chained     *)
(* block by block as CBC chains (addition modulo 256 in the place of       *)
(* XOR).  It keeps what the callers rely on: the length is preserved, only *)
(* block-aligned input is accepted, decrypt inverts encrypt, and neither   *)
(* is the identity.                                                        *)

BlockEnc(b, k) == ((5 * b) + k) % 256
BlockDec(c, k) == (205 * ((c + 256) - k)) % 256

KeyAt(i) == PASSKEY[((i - 1) % BLOCK_SIZE) + 1]

CipherOk(data) == Len(data) % BLOCK_SIZE = 0

encrypt(command) ==
    LET c[i \in 1..Len(command)] ==
            LET prev == IF i <= BLOCK_SIZE THEN INITIALIZATION_VECTOR[i]
                        ELSE c[i - BLOCK_SIZE]
            IN  BlockEnc((command[i] + prev) % 256, KeyAt(i))
    IN  [i \in 1..Len(command) |-> c[i]]

decrypt(msg) ==
    [i \in 1..Len(msg) |->
        LET prev == IF i <= BLOCK_SIZE THEN INITIALIZATION_VECTOR[i]
                    ELSE msg[i - BLOCK_SIZE]
        IN  ((BlockDec(msg[i], KeyAt(i)) + 256) - prev) % 256]

----------------------------------------------------------------------------
(* assemble_command *)

\* variant: the cipher takes input of any length
assemble_error_AnyLength(mac, command) ==
    IF ~FromHexOk(CMD_HEADER \o command) THEN "ValueError"
    ELSE IF Len(FromHex(CMD_HEADER \o command)) > 255 THEN "OverflowError"
    ELSE "none"

\* the exception assemble_command ends with, "none" when it returns
assemble_error(mac, command) ==
    IF ~FromHexOk(CMD_HEADER \o command) THEN "ValueError"
    ELSE IF ~CipherOk(FromHex(CMD_HEADER \o command)) THEN "ValueError"
    ELSE IF Len(FromHex(CMD_HEADER \o command)) > 255 THEN "OverflowError"
    ELSE "none"

assemble_command(mac, command) ==
    LET uncrypted_part == CMD_INIT(mac)
        header == CMD_HEADER
        crypted_part == encrypt(FromHex(header \o command))
    IN  uncrypted_part \o Hex(<<Len(crypted_part)>>) \o Hex(crypted_part)

----------------------------------------------------------------------------
(* The environment: devices and the datagrams the network can deliver *)

MAC_A == <<0, 170, 17, 187, 34, 204>>
MAC_B == <<0, 170, 17, 187, 68, 192>>
IP_A == <<192, 168, 0, 10>>
IP_B == <<192, 168, 0, 11>>

\* a MAC argument with an odd number of hex digits
MAC_MALFORMED == <<0, 0, 10, 10, 1>>

\* a reply frame as a device builds it: constant, reply marker, MAC,
\* length byte, encrypted payload
ReplyFrame(mac, plain) ==
    <<1, REPLY_MARKER>> \o mac \o <<Len(plain)>> \o encrypt(plain)

\* payload of a search reply: IP at offsets 8..11, MAC at offsets 12..17
SearchPlain(mac, ip) ==
    [i \in 1..32 |-> IF i \in 9..12 THEN ip[i - 8]
                     ELSE IF i \in 13..18 THEN mac[i - 12]
                     ELSE 0]

\* payload of a state reply or a switch receipt: state byte at offset 10
StatePlain(v) == [i \in 1..16 |-> IF i = 11 THEN v ELSE 0]

DG_SEARCH_A == ReplyFrame(MAC_A, SearchPlain(MAC_A, IP_A))
DG_SEARCH_B == ReplyFrame(MAC_B, SearchPlain(MAC_B, IP_B))
DG_STATE_ON == ReplyFrame(MAC_A, StatePlain(255))
DG_STATE_OFF == ReplyFrame(MAC_A, StatePlain(0))
DG_MISALIGNED == DG_STATE_ON \o <<7>>
DG_WRONG_MARKER == <<1, 64>> \o SliceFrom(DG_STATE_ON, 2)
DG_BARE_MARKER == <<1, REPLY_MARKER>>
DG_ONE_BYTE == <<1>>
DG_EMPTY == <<>>

Datagrams ==
    {DG_SEARCH_A, DG_SEARCH_B, DG_STATE_ON, DG_STATE_OFF, DG_MISALIGNED,
     DG_WRONG_MARKER, DG_BARE_MARKER, DG_ONE_BYTE, DG_EMPTY}

----------------------------------------------------------------------------
(* Initial state and the start of a call *)

NoRet == [success |-> FALSE, message |-> Unbound]

\* what a call that has read nothing yet holds, for settings c and r
Started(c, r) ==
    [start |-> [config |-> c, repeat |-> r], changed |-> FALSE,
     endpoint |-> [timeout |-> 0, port |-> 0], address |-> 0, range |-> 0]
NoDevice == [present |-> FALSE]
MIDNIGHT == [hour |-> 0, minute |-> 0, second |-> 0]
NoArgs == [mac |-> <<>>, ip |-> <<>>, on_off |-> "none"]
NoCall == [op |-> "none", args |-> NoArgs, result |-> Running]

\* calls the caller makes in one behaviour: more where a device answers
CallBudget == IF dev.present THEN MaxDevCalls ELSE MaxCalls

Init ==
    /\ repeat \in 1..MaxRepeat
    /\ pc = "idle"
    /\ op = "none"
    /\ args = NoArgs
    /\ cmd = <<>>
    /\ s = "none"
    /\ open = 0
    /\ n = 0
    /\ message = Unbound
    /\ ret = NoRet
    /\ result = Running
    /\ socket_data = <<>>
    /\ sent = 0
    /\ recvs = 0
    /\ hist = <<>>
    /\ calls = 0
    /\ inner = "none"
    /\ data_ = None
    /\ dev = NoDevice
    /\ inflight = <<>>
    /\ now = MIDNIGHT
    /\ tz = 0
    /\ fin = None
    /\ fout = None
    /\ lost = 0
    /\ acked = "none"
    /\ before = NoCall
    /\ dev0 = NoDevice
    /\ config = DEFAULTS
    /\ used = Started(DEFAULTS, 0)
    /\ assigned = 0

\* the locals of a fresh call
FreshCall ==
    /\ s' = "none"
    /\ n' = 0
    /\ message' = Unbound
    /\ ret' = NoRet
    /\ socket_data' = <<>>
    /\ sent' = 0
    /\ recvs' = 0
    /\ hist' = <<>>
    /\ calls' = calls + 1

\* the call ends with exception e, whatever `s` is
Raise(e) ==
    /\ result' = Raised(e)
    /\ pc' = "done"

\* switch(socket_, on_off) up to the call of send
switch ==
    /\ pc = "idle"
    /\ calls < CallBudget
    /\ \E mac \in {Hex(MAC_A), MAC_MALFORMED}, on_off \in {"on", "off"} :
          LET command == CMD_SWITCH(IF on_off = "on" THEN SWITCH_ON
                                    ELSE SWITCH_OFF)
          IN  /\ op' = "switch"
              /\ args' = [mac |-> mac, ip |-> IP_A, on_off |-> on_off]
              /\ IF assemble_error(mac, command) = "none"
                 THEN /\ cmd' = assemble_command(mac, command)
                      /\ pc' = "send_create"
                      /\ result' = Running
                 ELSE /\ cmd' = <<>>
                      /\ Raise(assemble_error(mac, command))
    /\ acked' = "none"
    /\ FreshCall
    /\ UNCHANGED <<repeat, open>>
    /\ used' = Started(config, repeat)
    /\ UNCHANGED <<inner, data_, dev, inflight, now, tz, fin, fout, lost,
                   before, dev0, config,
                   assigned>>

\* switch_state(socket_) up to the call of send
switch_state ==
    /\ pc = "idle"
    /\ calls < CallBudget
    /\ op' = "switch_state"
    /\ args' = [mac |-> Hex(MAC_A), ip |-> IP_A, on_off |-> "none"]
    /\ IF assemble_error(Hex(MAC_A), CMD_GET_STATE) = "none"
       THEN /\ cmd' = assemble_command(Hex(MAC_A), CMD_GET_STATE)
            /\ pc' = "send_create"
            /\ result' = Running
       ELSE /\ cmd' = <<>>
            /\ Raise(assemble_error(Hex(MAC_A), CMD_GET_STATE))
    /\ FreshCall
    /\ used' = Started(config, repeat)
    /\ UNCHANGED <<repeat, open>>
    /\ UNCHANGED <<inner, data_, dev, inflight, now, tz, fin, fout, lost,
                   acked, before, dev0, config,
                   assigned>>

\* find_sockets(mac, ip): entry
find_sockets ==
    /\ pc = "idle"
    /\ calls < MaxCalls
    /\ \E mac \in {BROADCAST_MAC, Hex(MAC_A), MAC_MALFORMED},
          ip \in {BROADCAST_IP, IP_A} :
          /\ op' = "find_sockets"
          /\ args' = [mac |-> mac, ip |-> ip, on_off |-> "none"]
    /\ cmd' = <<>>
    /\ pc' = "find_create"
    /\ result' = Running
    /\ FreshCall
    /\ used' = Started(config, repeat)
    /\ UNCHANGED <<repeat, open>>
    /\ UNCHANGED <<inner, data_, dev, inflight, now, tz, fin, fout, lost,
                   acked, before, dev0, config,
                   assigned>>

----------------------------------------------------------------------------
(* create_socket: socket.socket(), setsockopt, settimeout, bind.  The bind *)
(* can fail (OSError); the endpoint made by socket.socket() then exists    *)
(* and the function has not closed it.                                     *)

BindOutcomes == {"ok", "OSError"}

----------------------------------------------------------------------------
(* send(ip, command) *)

TIMEOUT == Str("Timeout")
BAD_RETURN_DATA == Str("Bad return data")

\* variant: the loop runs once more than `repeat`
RetryPending_OneMore(k) == k <= used.range

\* for n in range(repeat): another iteration follows k completed ones;
\* range(repeat) is evaluated once, when the loop starts
RetryPending(k) == k < used.range

\* variant: only the marker is tested, not the length
BadFrame_MarkerOnly(m) == Index(m, 1) # REPLY_MARKER

\* the test of line 753, for a datagram of at least 2 bytes
BadFrame(m) ==
    \/ Index(m, 1) # REPLY_MARKER
    \/ Len(SliceFrom(m, 9)) % BLOCK_SIZE # 0

\* variant: the whole datagram is returned, header included
SendSuccess_WithHeader(m) == [success |-> TRUE, message |-> Bytes(m)]

\* return True, message[9:]
SendSuccess(m) == [success |-> TRUE, message |-> Bytes(SliceFrom(m, 9))]

\* variants: the loop's last error is replaced by a fixed one
SendExhausted_AlwaysTimeout(msg) == [success |-> FALSE, message |-> TIMEOUT]
SendExhausted_AlwaysBad(msg) == [success |-> FALSE, message |-> BAD_RETURN_DATA]

\* return False, message   (after the loop)
SendExhausted(msg) == [success |-> FALSE, message |-> msg]

\* variant: the send error is reported as a timeout
SendAborted_AsTimeout(e) == [success |-> FALSE, message |-> TIMEOUT]

\* return False, message   (in the OSError handler of sendto)
SendAborted(e) == [success |-> FALSE, message |-> Exc(e)]

Outcome(o, d) == [out |-> o, dgram |-> d]

\* s = create_socket(); address = ...; send_command = bytes.fromhex(command)
\* and range(repeat) of the for statement.  create_socket reads timeout
\* and udp_port, `address` reads udp_port, the for statement reads repeat
\* once.
send_create ==
    /\ pc = "send_create"
    /\ \E b \in BindOutcomes :
          /\ s' = "open"
          /\ open' = open + 1
          /\ IF b # "ok"
             THEN /\ Raise(b)
                  /\ used' = [used EXCEPT
                                 !.endpoint = [timeout |-> timeout,
                                               port |-> udp_port]]
             ELSE /\ used' = [used EXCEPT
                                 !.endpoint = [timeout |-> timeout,
                                               port |-> udp_port],
                                 !.address = udp_port,
                                 !.range = IF FromHexOk(cmd) THEN repeat
                                           ELSE @]
                  /\ IF ~FromHexOk(cmd) THEN Raise("ValueError")
                     ELSE /\ pc' = "send_loop"
                          /\ result' = result
    /\ UNCHANGED <<repeat, op, args, cmd, n, message, ret, socket_data,
                   sent, recvs, hist, calls>>
    /\ UNCHANGED <<inner, data_, dev, inflight, now, tz, fin, fout, lost,
                   acked, before, dev0, config,
                   assigned>>

\* the head of the for loop, and the two statements after the loop
send_loop ==
    /\ pc = "send_loop"
    /\ IF RetryPending(n)
       THEN /\ pc' = "send_sendto"
            /\ UNCHANGED <<s, open, ret>>
       ELSE /\ s' = "closed"
            /\ open' = open - 1
            /\ ret' = SendExhausted(message)
            /\ pc' = "send_return"
    /\ UNCHANGED <<repeat, op, args, cmd, n, message, result, socket_data,
                   sent, recvs, hist, calls>>
    /\ UNCHANGED xvars

\* try: s.sendto(...)  except OSError as message: s.close(); return ...
send_sendto ==
    /\ pc = "send_sendto"
    /\ \/ /\ sent' = sent + 1
          /\ pc' = "send_recv"
          /\ UNCHANGED <<s, open, ret, message, hist>>
       \/ /\ message' = Exc("OSError")
          /\ s' = "closed"
          /\ open' = open - 1
          /\ ret' = SendAborted("OSError")
          /\ hist' = Append(hist, Outcome("senderr", <<>>))
          /\ pc' = "send_return"
          /\ UNCHANGED sent
    /\ UNCHANGED <<repeat, op, args, cmd, n, result, socket_data, recvs,
                   calls>>
    /\ UNCHANGED xvars

\* try: message = s.recv(1024) ... and the validation of the datagram
send_recv ==
    /\ pc = "send_recv"
    /\ recvs' = recvs + 1
    /\ \/ \* socket.timeout
          /\ message' = TIMEOUT
          /\ hist' = Append(hist, Outcome("timeout", <<>>))
          /\ n' = n + 1
          /\ pc' = "send_loop"
          /\ UNCHANGED <<s, open, ret, result>>
       \/ \* an OSError that is not socket.timeout
          /\ hist' = Append(hist, Outcome("recverr", <<>>))
          /\ Raise("OSError")
          /\ UNCHANGED <<s, open, ret, message, n>>
       \/ \E d \in Datagrams :
             IF ~HasIndex(d, 1)
             THEN \* message[1] raises IndexError
                  /\ message' = Bytes(d)
                  /\ hist' = Append(hist, Outcome("short", d))
                  /\ Raise("IndexError")
                  /\ UNCHANGED <<s, open, ret, n>>
             ELSE IF BadFrame(d)
             THEN /\ message' = BAD_RETURN_DATA
                  /\ hist' = Append(hist, Outcome("bad", d))
                  /\ n' = n + 1
                  /\ pc' = "send_loop"
                  /\ UNCHANGED <<s, open, ret, result>>
             ELSE /\ message' = Bytes(d)
                  /\ hist' = Append(hist, Outcome("valid", d))
                  /\ s' = "closed"
                  /\ open' = open - 1
                  /\ ret' = SendSuccess(d)
                  /\ pc' = "send_return"
                  /\ UNCHANGED <<n, result>>
    /\ UNCHANGED <<repeat, op, args, cmd, socket_data, sent, calls>>
    /\ UNCHANGED xvars

\* switch: success, message = send(ip, cmd) and the return
switch_return ==
    /\ pc = "send_return"
    /\ op = "switch"
    /\ result' = IF ret.success THEN Returned(Bool(TRUE))
                 ELSE Returned(ret.message)
    /\ acked' = IF ret.success THEN args.on_off ELSE acked
    /\ pc' = "done"
    /\ UNCHANGED <<repeat, op, args, cmd, s, open, n, message, ret,
                   socket_data, sent, recvs, hist, calls>>
    /\ UNCHANGED <<inner, data_, dev, inflight, now, tz, fin, fout, lost,
                   before, dev0>>
    /\ UNCHANGED <<config, used, assigned>>

\* what switch_state makes of a decrypted payload
StateOf(m) ==
    IF Index(m, 10) = 0 THEN Str("off")
    ELSE IF Index(m, 10) = 255 THEN Str("on")
    ELSE None

\* switch_state: success, message = send(ip, cmd) and the return
switch_state_return ==
    /\ pc = "send_return"
    /\ op = "switch_state"
    /\ IF ret.success
       THEN LET m == decrypt(ret.message.bytes)
            IN  IF HasIndex(m, 10)
                THEN /\ result' = Returned(StateOf(m))
                     /\ pc' = "done"
                ELSE Raise("IndexError")
       ELSE /\ result' = Returned(ret.message)
            /\ pc' = "done"
    /\ UNCHANGED <<repeat, op, args, cmd, s, open, n, message, ret,
                   socket_data, sent, recvs, hist, calls>>
    /\ UNCHANGED xvars

----------------------------------------------------------------------------
(* find_sockets(mac, ip) *)

Socket(mac_, ip_) == [kind |-> "Socket", mac |-> mac_, ip |-> ip_]

\* Socket(mac_, ip_) of a decrypted search reply of at least 12 bytes
SocketOf(m) ==
    Socket(Hex(Slice(m, 12, 18)),
           <<Index(m, 8), Index(m, 9), Index(m, 10), Index(m, 11)>>)

\* the test of line 277: the caller asked for one socket
Filtered(mac, ip) == mac # BROADCAST_MAC \/ ip # BROADCAST_IP

\* socket_data[0], for a list that is not empty
FirstSocket(data) == data[1]

\* s = create_socket(broadcast=True)
find_create ==
    /\ pc = "find_create"
    /\ \E b \in BindOutcomes :
          /\ s' = "open"
          /\ open' = open + 1
          /\ IF b # "ok"
             THEN /\ Raise(b)
                  /\ used' = [used EXCEPT
                                 !.endpoint = [timeout |-> timeout,
                                               port |-> udp_port]]
             ELSE /\ pc' = "find_assemble"
                  /\ result' = result
                  /\ used' = [used EXCEPT
                                 !.endpoint = [timeout |-> timeout,
                                               port |-> udp_port],
                                 !.address = udp_port]
    /\ UNCHANGED <<repeat, op, args, cmd, n, message, ret, socket_data,
                   sent, recvs, hist, calls>>
    /\ UNCHANGED <<inner, data_, dev, inflight, now, tz, fin, fout, lost,
                   acked, before, dev0, config, assigned>>

\* cmd = assemble_command(mac, CMD_SEARCH.format(mac=mac))
\* send_command = bytes.fromhex(cmd)
find_assemble ==
    /\ pc = "find_assemble"
    /\ LET command == CMD_SEARCH(args.mac)
       IN  IF assemble_error(args.mac, command) # "none"
           THEN /\ Raise(assemble_error(args.mac, command))
                /\ cmd' = cmd
           ELSE IF ~FromHexOk(assemble_command(args.mac, command))
           THEN /\ Raise("ValueError")
                /\ cmd' = assemble_command(args.mac, command)
           ELSE /\ cmd' = assemble_command(args.mac, command)
                /\ pc' = "find_sendto"
                /\ result' = result
    /\ UNCHANGED <<repeat, op, args, s, open, n, message, ret, socket_data,
                   sent, recvs, hist, calls>>
    /\ UNCHANGED xvars

\* s.sendto(send_command, address), outside any try
find_sendto ==
    /\ pc = "find_sendto"
    /\ \/ /\ sent' = sent + 1
          /\ pc' = "find_recv"
          /\ UNCHANGED <<result, hist>>
       \/ /\ hist' = Append(hist, Outcome("senderr", <<>>))
          /\ Raise("OSError")
          /\ UNCHANGED sent
    /\ UNCHANGED <<repeat, op, args, cmd, s, open, n, message, ret,
                   socket_data, recvs, calls>>
    /\ UNCHANGED xvars

\* one iteration of the while loop
find_recv ==
    /\ pc = "find_recv"
    /\ recvs' = recvs + 1
    /\ \/ \* socket.timeout: break
          /\ hist' = Append(hist, Outcome("timeout", <<>>))
          /\ pc' = "find_return"
          /\ UNCHANGED <<message, socket_data, result>>
       \/ \* an OSError that is not socket.timeout
          /\ hist' = Append(hist, Outcome("recverr", <<>>))
          /\ Raise("OSError")
          /\ UNCHANGED <<message, socket_data>>
       \/ /\ recvs < MaxReplies
          /\ \E d \in Datagrams :
                IF ~HasIndex(d, 1)
                THEN \* message[1] raises IndexError
                     /\ message' = Bytes(d)
                     /\ hist' = Append(hist, Outcome("short", d))
                     /\ Raise("IndexError")
                     /\ UNCHANGED socket_data
                ELSE IF BadFrame(d)
                THEN \* continue
                     /\ message' = Bytes(d)
                     /\ hist' = Append(hist, Outcome("bad", d))
                     /\ UNCHANGED <<pc, socket_data, result>>
                ELSE LET m == decrypt(SliceFrom(d, 9))
                     IN  /\ message' = Bytes(m)
                         /\ hist' = Append(hist, Outcome("valid", d))
                         /\ IF HasIndex(m, 11)
                            THEN /\ socket_data' =
                                        Append(socket_data, SocketOf(m))
                                 /\ UNCHANGED <<pc, result>>
                            ELSE \* message[8] raises IndexError
                                 /\ Raise("IndexError")
                                 /\ UNCHANGED socket_data
    /\ UNCHANGED <<repeat, op, args, cmd, s, open, n, ret, sent, calls>>
    /\ UNCHANGED xvars

\* s.close() and the end of the function
find_return ==
    /\ pc = "find_return"
    /\ s' = "closed"
    /\ open' = open - 1
    /\ IF Filtered(args.mac, args.ip)
       THEN IF socket_data = <<>>
            THEN Raise("IndexError")
            ELSE /\ result' = Returned(FirstSocket(socket_data))
                 /\ pc' = "done"
       ELSE /\ result' = Returned(List(socket_data))
            /\ pc' = "done"
    /\ UNCHANGED <<repeat, op, args, cmd, n, message, ret, socket_data,
                   sent, recvs, hist, calls>>
    /\ UNCHANGED xvars

----------------------------------------------------------------------------
(* The caller goes on after the call has ended.  The history of the ended  *)
(* call is kept until the next call starts.                                *)

Continue ==
    /\ pc = "done"
    /\ pc' = "idle"
    /\ UNCHANGED <<repeat, op, args, cmd, s, open, n, message, ret, result,
                   socket_data, sent, recvs, hist, calls>>
    /\ UNCHANGED xvars

Next ==
    \/ switch
    \/ switch_state
    \/ find_sockets
    \/ send_create
    \/ send_loop
    \/ send_sendto
    \/ send_recv
    \/ switch_return
    \/ switch_state_return
    \/ find_create
    \/ find_assemble
    \/ find_sendto
    \/ find_recv
    \/ find_return
    \/ Continue

Spec == Init /\ [][Next]_vars

----------------------------------------------------------------------------
(* Vocabulary of the properties *)

\* the current or latest call went through send()
SendCall == op \in {"switch", "switch_state"}

\* send() has returned to the command that called it
SendReturned == SendCall /\ ret.message.kind # "unbound"

\* the public call has ended (its history stays until the next call)
CallEnded == op # "none" /\ pc \in {"done", "idle"}

LastOf(h) == h[Len(h)]

AllOut(o) == \A i \in 1..Len(hist) : hist[i].out = o

\* a datagram with the reply marker at offset 1 whose bytes from offset 9
\* on are not a whole number of blocks
MarkedMisaligned(d) ==
    /\ Len(d) > 9
    /\ d[2] = 66
    /\ (Len(d) - 9) % 16 # 0

\* a datagram that passes the frame validation
StructurallyValid(d) ==
    /\ Len(d) >= 2
    /\ d[2] = 66
    /\ (Len(d) <= 9 \/ (Len(d) - 9) % 16 = 0)

----------------------------------------------------------------------------
(* C1: a send() call in which every attempt ends in a receive timeout (no  *)
(* datagram is received) sends the frame exactly `repeat` times, not fewer *)
(* or more, and then returns (False, 'Timeout').                           *)

C1_ExactlyRepeatThenTimeout ==
    (SendCall /\ AllOut("timeout")) =>
        /\ sent <= repeat
        /\ SendReturned =>
              /\ sent = repeat
              /\ recvs = repeat
              /\ Len(hist) = repeat
              /\ ret.success = FALSE
              /\ ret.message = TIMEOUT

C1_Witness ==
    /\ SendReturned
    /\ AllOut("timeout")
    /\ repeat >= 2
    /\ sent = repeat

(* C2: in send(), a datagram with the marker 0x42 at offset 1 and a        *)
(* remainder from offset 9 that is not a multiple of 16 bytes is never     *)
(* returned as a success: the attempt is recorded as 'Bad return data' and *)
(* the call retries or fails.                                              *)

C2_MisalignedNeverAccepted ==
    \A i \in 1..Len(hist) :
        (SendCall /\ MarkedMisaligned(hist[i].dgram)) =>
            /\ hist[i].out = "bad"
            /\ (i = Len(hist) /\ ~SendReturned) => message = BAD_RETURN_DATA
            /\ (i = Len(hist) /\ SendReturned) =>
                  /\ ret.success = FALSE
                  /\ ret.message = BAD_RETURN_DATA
                  /\ Len(hist) = repeat
            /\ (i = Len(hist) /\ CallEnded) =>
                  result = Returned(BAD_RETURN_DATA)

C2_Witness ==
    /\ SendReturned
    /\ Len(hist) >= 2
    /\ MarkedMisaligned(hist[1].dgram)
    /\ MarkedMisaligned(LastOf(hist).dgram)

(* C3 (as stated): in send(), a structurally valid reply ends the retry    *)
(* loop, no further frame is sent, and the call returns success together   *)
(* with the decrypted payload of that reply.                               *)

C3_ReturnsDecryptedPayload ==
    \A i \in 1..Len(hist) :
        (SendCall /\ StructurallyValid(hist[i].dgram)) =>
            /\ i = Len(hist)
            /\ sent = Len(hist)
            /\ pc \in {"send_return", "done", "idle"}
            /\ ret.success = TRUE
            /\ ret.message = Bytes(decrypt(SliceFrom(hist[i].dgram, 9)))

(* C3 (amended): in send(), a structurally valid reply ends the retry      *)
(* loop, no further frame is sent, and the call returns success together   *)
(* with the bytes of that reply from offset 9 on, still encrypted.         *)

C3_ReturnsEncryptedRemainder ==
    \A i \in 1..Len(hist) :
        (SendCall /\ StructurallyValid(hist[i].dgram)) =>
            /\ i = Len(hist)
            /\ sent = Len(hist)
            /\ pc \in {"send_return", "done", "idle"}
            /\ ret.success = TRUE
            /\ ret.message = Bytes(SubSeq(hist[i].dgram, 10, Len(hist[i].dgram)))

C3_Witness ==
    /\ SendReturned
    /\ Len(hist) >= 2
    /\ Len(hist) < repeat
    /\ StructurallyValid(LastOf(hist).dgram)
    /\ Len(LastOf(hist).dgram) > 9

----------------------------------------------------------------------------
\* the error an attempt with outcome o records
Recorded(o) ==
    IF o = "timeout" THEN Str("Timeout")
    ELSE IF o = "bad" THEN Str("Bad return data")
    ELSE Exc("OSError")

(* C4: when send() uses up its retry budget without a valid reply, the     *)
(* error it returns is the one the last attempt recorded: 'Timeout' after  *)
(* a timeout, 'Bad return data' after an invalid frame, for every sequence *)
(* of per-attempt outcomes.                                                *)

C4_LastRecordedError ==
    (SendReturned /\ ~ret.success) =>
        /\ hist # <<>>
        /\ LastOf(hist).out \in {"timeout", "bad", "senderr"}
        /\ ret.message = Recorded(LastOf(hist).out)
        /\ LastOf(hist).out \in {"timeout", "bad"} => Len(hist) = repeat

C4_Witness ==
    /\ SendReturned
    /\ Len(hist) = repeat
    /\ repeat >= 2
    /\ hist[1].out = "bad"
    /\ LastOf(hist).out = "timeout"
    /\ ret.message = TIMEOUT

(* C5 (as stated): a command fails with 'Bad return data' only if every    *)
(* one of its attempts received a reply that failed frame validation.      *)

C5_BadOnlyIfEveryAttemptBad ==
    (SendReturned /\ ret.message = BAD_RETURN_DATA) => AllOut("bad")

(* C5 (amended): a command fails with 'Bad return data' only if its last   *)
(* attempt received a reply that failed frame validation (earlier attempts *)
(* may have timed out); if the last attempt timed out, the failure is      *)
(* reported as 'Timeout'.                                                  *)

C5_BadOnlyIfLastAttemptBad ==
    /\ (SendReturned /\ ret.message = BAD_RETURN_DATA) =>
          /\ Len(hist) = repeat
          /\ LastOf(hist).out = "bad"
          /\ ~StructurallyValid(LastOf(hist).dgram)
    /\ (SendReturned /\ hist # <<>> /\ LastOf(hist).out = "timeout") =>
          ret.message = TIMEOUT

C5_Witness ==
    /\ SendReturned
    /\ ret.message = BAD_RETURN_DATA
    /\ Len(hist) >= 2
    /\ hist[1].out = "timeout"

(* C6: if sendto raises an OS-level error on any attempt of send(), the    *)
(* call ends at that attempt: no later attempt is made, no receive is      *)
(* attempted, and the error is returned as (False, error), not raised.     *)

C6_SendFailureEndsCall ==
    \A i \in 1..Len(hist) :
        (SendCall /\ hist[i].out = "senderr") =>
            /\ i = Len(hist)
            /\ sent = Len(hist) - 1
            /\ recvs = Len(hist) - 1
            /\ pc \in {"send_return", "done", "idle"}
            /\ ret.success = FALSE
            /\ ret.message = Exc("OSError")
            /\ result.kind # "raised"
            /\ CallEnded => result = Returned(Exc("OSError"))

C6_Witness ==
    /\ SendCall
    /\ CallEnded
    /\ Len(hist) >= 2
    /\ Len(hist) < repeat
    /\ LastOf(hist).out = "senderr"

(* C7: every command or discovery call that opens a UDP endpoint has       *)
(* closed it by the time the call ends, on every exit path; no endpoint    *)
(* stays open between calls.                                               *)

C7_EndpointClosedAtCallEnd ==
    pc \in {"done", "idle"} => open = 0

\* the MAC argument is a hex string of 6 bytes
WellFormedArgs == Len(args.mac) = 12

(* C8: for every public command (called with well-formed arguments),       *)
(* whatever the network does (no reply, replies of any length and content, *)
(* send failure, local bind failure), the call ends by returning a value   *)
(* and never by an unhandled exception.                                    *)

C8_NeverRaises ==
    (op # "none" /\ WellFormedArgs) => result.kind # "raised"

(* C9: find_sockets called with a specific MAC X returns at most one       *)
(* device, and a device it returns has MAC X, for every set and order of   *)
(* replies that arrive during the collection window.                       *)

C9_FilteredResultHasRequestedMac ==
    (CallEnded /\ op = "find_sockets" /\ args.mac # BROADCAST_MAC
     /\ result.kind = "returned") =>
        /\ result.val.kind = "Socket"
        /\ FromHex(result.val.mac) = FromHex(args.mac)

----------------------------------------------------------------------------
\* the datagrams received during the call, in arrival order
Received == SelectSeq(hist, LAMBDA e : e.out \in {"short", "bad", "valid"})

ValidReceived == SelectSeq(Received, LAMBDA e : StructurallyValid(e.dgram))

\* the (mac, ip) entry a search reply stands for
EntryOf(d) ==
    LET m == decrypt(SubSeq(d, 10, Len(d)))
    IN  Socket(Hex(SubSeq(m, 13, Min(18, Len(m)))), <<m[9], m[10], m[11], m[12]>>)

\* create_socket, sendto and recv raised no OS error and every datagram
\* received holds at least the 2 bytes that the marker test reads
NoOsErrorNoRunt ==
    /\ sent = 1
    /\ \A i \in 1..Len(hist) : hist[i].out \in {"timeout", "bad", "valid"}

(* C10: find_sockets called with no filter always returns a list, empty    *)
(* when no valid reply arrived, holding one (mac, ip) entry per            *)
(* structurally valid reply received, in arrival order.  Stated for the    *)
(* calls in which the operating system reports no error and every datagram *)
(* received holds at least 2 bytes.                                        *)

C10_UnfilteredReturnsListOfReplies ==
    (CallEnded /\ op = "find_sockets" /\ NoOsErrorNoRunt
     /\ args.mac = BROADCAST_MAC /\ args.ip = BROADCAST_IP) =>
        /\ result.kind = "returned"
        /\ result.val.kind = "list"
        /\ Len(result.val.list) = Len(ValidReceived)
        /\ \A i \in 1..Len(ValidReceived) :
              result.val.list[i] = EntryOf(ValidReceived[i].dgram)

----------------------------------------------------------------------------
\* the call was given a MAC that is not a hex string of whole bytes
InvalidArgument == op # "none" /\ ~FromHexOk(args.mac)

(* C17: a command called with an input that fails its domain constraints   *)
(* (here: a malformed MAC) ends with an error outcome without sending any  *)
(* datagram and without opening a UDP endpoint.                            *)

C17_InvalidInputNoNetwork ==
    InvalidArgument =>
        /\ s = "none"
        /\ sent = 0
        /\ CallEnded =>
              \/ result.kind = "raised"
              \/ result.kind = "returned" /\ result.val.kind = "exc"

\* a datagram that fails the validation of find_sockets: wrong marker,
\* misaligned length, or too short to hold a marker
FailsValidation(d) == ~StructurallyValid(d)

\* the latest recv of the call delivered a datagram
LastIsDatagram ==
    hist # <<>> /\ LastOf(hist).out \in {"short", "bad", "valid"}

(* C20: find_sockets sends the search frame exactly once, then keeps       *)
(* receiving until the first receive attempt that times out and returns at *)
(* that point; a reply that fails validation (wrong marker, misaligned     *)
(* length, or too short to hold a marker) is skipped without ending the    *)
(* collection and without an error.                                        *)

C20_SingleSendCollectUntilTimeout ==
    op = "find_sockets" =>
        /\ sent <= 1
        /\ recvs > 0 => sent = 1
        /\ \A i \in 1..Len(hist) :
              hist[i].out = "timeout" =>
                  /\ i = Len(hist)
                  /\ pc \in {"find_return", "done", "idle"}
        /\ (LastIsDatagram /\ FailsValidation(LastOf(hist).dgram)) =>
              /\ pc = "find_recv"
              /\ result = Running

----------------------------------------------------------------------------
(* Timers: the encoding of set_timer and the decoding of timer_query.      *)
(* A repeat mask '1111100' is the sequence <<1,1,1,1,1,0,0>>; a time       *)
(* string 'hh:mm' is the sequence of its characters, digits as numbers and *)
(* COLON for ':'; a datetime is the number of seconds since datetime.min.  *)

COUNTDOWN == Str("Countdown")
IntVal(v) == [kind |-> "int", int |-> v]
COLON == 10

Reverse(sq) == [i \in 1..Len(sq) |-> sq[Len(sq) + 1 - i]]

\* int(bits, 2)
RECURSIVE BitsToInt(_)
BitsToInt(bits) ==
    IF bits = <<>> THEN 0
    ELSE 2 * BitsToInt(SubSeq(bits, 1, Len(bits) - 1)) + bits[Len(bits)]

\* f'{b:08b}' for a byte
Bin8(b) == [i \in 1..8 |-> (b \div (2 ^ (8 - i))) % 2]

\* f'{v:02x}': two hex digits, three from 256 on, four from 4096 on
Hex2(v) == IF v < 256 THEN Hex(<<v>>)
           ELSE IF v < 4096 THEN <<v \div 256>> \o Hex(<<v % 256>>)
           ELSE Hex(<<v \div 256, v % 256>>)

\* f'{hour:02d}:{minute:02d}'
TimeStr(hour, minute) ==
    <<hour \div 10, hour % 10, COLON, minute \div 10, minute % 10>>

\* (int(x) for x in time_.split(':')) yields exactly two integers
TimeStrOk(str) ==
    /\ Len(str) = 5
    /\ str[3] = COLON
    /\ \A i \in {1, 2, 4, 5} : str[i] \in 0..9
ParseHour(str) == 10 * str[1] + str[2]
ParseMinute(str) == 10 * str[4] + str[5]

\* datetime.datetime(1, 1, 2, hour, minute), for hour < 24 and minute < 60
DateTimeOk(hour, minute) == hour \in 0..23 /\ minute \in 0..59
DateTime(hour, minute) == 86400 + (3600 * hour) + (60 * minute)

\* datetime.datetime.now(), on a day far from datetime.min
DateTimeNow ==
    (86400 * 10000) + (3600 * now.hour) + (60 * now.minute) + now.second

\* .hour and .minute of a datetime
HourOf(dt) == (dt \div 3600) % 24
MinuteOf(dt) == (dt \div 60) % 60

\* if not delta_time: delta_time = time.timezone
EffectiveDelta(delta_time) ==
    IF delta_time.kind = "None" THEN tz
    ELSE IF delta_time.int = 0 THEN tz
    ELSE delta_time.int

\* variant: the mask is not reversed
repeat_byte_NotReversed(active, repeat_) ==
    BitsToInt(<<IF active THEN 1 ELSE 0>> \o repeat_)

\* set_timer, line 455: the active flag and the reversed mask in one byte
repeat_byte(active, repeat_) ==
    BitsToInt(<<IF active THEN 1 ELSE 0>> \o Reverse(repeat_))

\* timer_query, line 397: active
timer_active(b) == Bin8(b)[1] = 1

\* timer_query, line 398: f'{b:08b}'[-1:0:-1]
timer_repeat(b) == [i \in 1..7 |-> Bin8(b)[9 - i]]

----------------------------------------------------------------------------
(* The active+repeat byte on its own: every flag and mask is encoded as    *)
(* set_timer encodes it, put on the wire as two hex digits, and decoded as *)
(* timer_query decodes it.                                                 *)

Masks == [1..7 -> {0, 1}]

InitRepeat ==
    /\ repeat = 1
    /\ pc = "repeat_encode"
    /\ op = "none"
    /\ args = NoArgs
    /\ cmd = <<>>
    /\ s = "none"
    /\ open = 0
    /\ n = 0
    /\ message = Unbound
    /\ ret = NoRet
    /\ result = Running
    /\ socket_data = <<>>
    /\ sent = 0
    /\ recvs = 0
    /\ hist = <<>>
    /\ calls = 0
    /\ inner = "none"
    /\ data_ = None
    /\ dev = NoDevice
    /\ inflight = <<>>
    /\ now = MIDNIGHT
    /\ tz = 0
    /\ fin \in [active : BOOLEAN, repeat : Masks]
    /\ fout = None
    /\ lost = 0
    /\ acked = "none"
    /\ before = NoCall
    /\ dev0 = NoDevice
    /\ config = DEFAULTS
    /\ used = Started(DEFAULTS, 0)
    /\ assigned = 0

\* set_timer's side: the byte as two hex digits of the command
repeat_encode ==
    /\ pc = "repeat_encode"
    /\ cmd' = Hex2(repeat_byte(fin.active, fin.repeat))
    /\ pc' = "repeat_decode"
    /\ UNCHANGED <<repeat, op, args, s, open, n, message, ret, result,
                   socket_data, sent, recvs, hist, calls, xvars>>

\* timer_query's side: the byte m[n + 1] of the reply
repeat_decode ==
    /\ pc = "repeat_decode"
    /\ LET b == FromHex(cmd)[1]
       IN  fout' = [active |-> timer_active(b), repeat |-> timer_repeat(b)]
    /\ pc' = "repeat_done"
    /\ UNCHANGED <<repeat, op, args, cmd, s, open, n, message, ret, result,
                   socket_data, sent, recvs, hist, calls, inner, data_, dev,
                   inflight, now, tz, fin, lost, acked, before, dev0>>
    /\ UNCHANGED <<config, used, assigned>>

NextRepeat ==
    \/ repeat_encode
    \/ repeat_decode

SpecRepeat == InitRepeat /\ [][NextRepeat]_vars

(* C13: for every active flag and every 7-character weekday mask of '0'    *)
(* and '1' (Monday first), the active+repeat byte that set_timer encodes   *)
(* is decoded by timer_query back to the same flag and the same mask.      *)

----------------------------------------------------------------------------
(* The device.  wifisocket.py holds no code of the socket's firmware; the  *)
(* device is modelled by what the commands and the parsers of the replies  *)
(* in wifisocket.py take it to be: it keeps the switch state, eleven timer *)
(* records of 8 bytes (number, active+repeat, hour, minute, 4 bytes of     *)
(* action; hour 255 in a free slot) and the absence window (flag, from,    *)
(* to), stores what a command carries and answers every command with one   *)
(* reply frame.                                                            *)

TIMER_SLOTS == 11
TIMER_RECORD == 8
NO_TIME == 255
AM_ACTIVE == 128

OP_SWITCH == 1
OP_GET_STATE == 2
OP_SET_TIMER == 3
OP_TIMER_QUERY == 4
OP_DELETE_TIMER == 5
OP_SET_AM == 9
OP_AM_QUERY == 10

\* padding as the commands carry it: k bytes of value k up to the block
Pad16(x) ==
    LET k == BLOCK_SIZE - (Len(x) % BLOCK_SIZE)
    IN  x \o [i \in 1..k |-> k]

\* plaintext of a reply: header, opcode, content, padding
DevPlain(opcode, content) ==
    Pad16(FromHex(CMD_HEADER) \o <<opcode>> \o content)

FreeSlot(k) == <<k, 0, NO_TIME, NO_TIME, 0, 0, 0, 255>>

AbsenceOff == <<0, 0, 0, 0, 0, 0, 0, 0, 0>>

Device(state, timers, absence) ==
    [present |-> TRUE, state |-> state, timers |-> timers,
     absence |-> absence]

\* the plaintext of the command in a frame given to sendto
CommandOf(frame) == decrypt(SliceFrom(FromHex(frame), 9))

\* the device after command p (p[8] is the opcode)
DevApply(d, p) ==
    IF p[8] = OP_SWITCH
    THEN [d EXCEPT !.state = IF SubSeq(p, 9, 12) = FromHex(SWITCH_ON)
                             THEN 255 ELSE 0]
    ELSE IF p[8] = OP_SET_TIMER /\ p[10] \in 1..TIMER_SLOTS
    THEN [d EXCEPT !.timers[p[10]] = SubSeq(p, 10, 17)]
    ELSE IF p[8] = OP_DELETE_TIMER /\ p[10] \in 1..TIMER_SLOTS
    THEN [d EXCEPT !.timers[p[10]] = FreeSlot(p[10])]
    ELSE IF p[8] = OP_SET_AM
    THEN [d EXCEPT !.absence = SubSeq(p, 9, 17)]
    ELSE d

RECURSIVE Flatten(_)
Flatten(sqs) == IF sqs = <<>> THEN <<>> ELSE Head(sqs) \o Flatten(Tail(sqs))

\* the reply of device d (already changed by the command) to command p
DevReply(d, p) ==
    IF p[8] = OP_TIMER_QUERY
    THEN DevPlain(OP_TIMER_QUERY, <<0>> \o Flatten(d.timers))
    ELSE IF p[8] = OP_AM_QUERY
    THEN DevPlain(OP_AM_QUERY, d.absence)
    ELSE DevPlain(p[8], <<0, 0, d.state>>)

\* s.sendto(send_command, address) with the device listening: the frame
\* reaches the device, which acts on it and sends its reply
dev_sendto ==
    /\ pc = "send_sendto"
    /\ \/ LET p == CommandOf(cmd)
              d == DevApply(dev, p)
          IN  /\ dev' = d
              /\ inflight' = Append(inflight, ReplyFrame(MAC_A, DevReply(d, p)))
              /\ sent' = sent + 1
              /\ pc' = "send_recv"
              /\ UNCHANGED <<s, open, ret, message, hist>>
       \/ /\ message' = Exc("OSError")
          /\ s' = "closed"
          /\ open' = open - 1
          /\ ret' = SendAborted("OSError")
          /\ hist' = Append(hist, Outcome("senderr", <<>>))
          /\ pc' = "send_return"
          /\ UNCHANGED <<sent, dev, inflight>>
    /\ UNCHANGED <<repeat, op, args, cmd, n, result, socket_data, recvs,
                   calls, inner, data_, now, tz, fin, fout, lost, acked,
                   before, dev0>>
    /\ UNCHANGED <<config, used, assigned>>

\* message = s.recv(1024) and the validation, with the device's replies in
\* flight.  A reply that has not arrived when the timeout expires is lost
\* (late = FALSE) or stays in flight and arrives later (late = TRUE).
DevRecv(late) ==
    /\ pc = "send_recv"
    /\ recvs' = recvs + 1
    /\ \/ \* socket.timeout
          /\ lost < MaxLost
          /\ lost' = lost + 1
          /\ inflight' = IF late THEN inflight ELSE <<>>
          /\ message' = TIMEOUT
          /\ hist' = Append(hist, Outcome("timeout", <<>>))
          /\ n' = n + 1
          /\ pc' = "send_loop"
          /\ UNCHANGED <<s, open, ret, result>>
       \/ /\ inflight # <<>>
          /\ inflight' = Tail(inflight)
          /\ lost' = lost
          /\ LET d == Head(inflight)
             IN  IF ~HasIndex(d, 1)
                 THEN /\ message' = Bytes(d)
                      /\ hist' = Append(hist, Outcome("short", d))
                      /\ Raise("IndexError")
                      /\ UNCHANGED <<s, open, ret, n>>
                 ELSE IF BadFrame(d)
                 THEN /\ message' = BAD_RETURN_DATA
                      /\ hist' = Append(hist, Outcome("bad", d))
                      /\ n' = n + 1
                      /\ pc' = "send_loop"
                      /\ UNCHANGED <<s, open, ret, result>>
                 ELSE /\ message' = Bytes(d)
                      /\ hist' = Append(hist, Outcome("valid", d))
                      /\ s' = "closed"
                      /\ open' = open - 1
                      /\ ret' = SendSuccess(d)
                      /\ pc' = "send_return"
                      /\ UNCHANGED <<n, result>>
    /\ UNCHANGED <<repeat, op, args, cmd, socket_data, sent, calls, inner,
                   data_, dev, now, tz, fin, fout, acked, before, dev0>>
    /\ UNCHANGED <<config, used, assigned>>

dev_recv == DevRecv(FALSE)
dev_recv_late == DevRecv(TRUE)

----------------------------------------------------------------------------
(* switch and switch_state with the device answering, every reply free to  *)
(* arrive during the attempt that asked for it or during a later one.      *)

DEFAULT_REPEAT == 3

AllFree == [k \in 1..TIMER_SLOTS |-> FreeSlot(k)]

\* the caller before its first call
Idle ==
    /\ pc = "idle"
    /\ op = "none"
    /\ args = NoArgs
    /\ cmd = <<>>
    /\ s = "none"
    /\ open = 0
    /\ n = 0
    /\ message = Unbound
    /\ ret = NoRet
    /\ result = Running
    /\ socket_data = <<>>
    /\ sent = 0
    /\ recvs = 0
    /\ hist = <<>>
    /\ calls = 0
    /\ inner = "none"
    /\ data_ = None
    /\ inflight = <<>>
    /\ fin = None
    /\ fout = None
    /\ lost = 0
    /\ acked = "none"
    /\ before = NoCall
    /\ dev0 = NoDevice
    /\ config = DEFAULTS
    /\ used = Started(DEFAULTS, 0)
    /\ assigned = 0

InitSwitch ==
    /\ Idle
    /\ repeat = DEFAULT_REPEAT
    /\ dev \in {Device(st, AllFree, AbsenceOff) : st \in {0, 255}}
    /\ now = MIDNIGHT
    /\ tz = 0

NextSwitch ==
    \/ switch
    \/ switch_state
    \/ send_create
    \/ send_loop
    \/ dev_sendto
    \/ dev_recv_late
    \/ switch_return
    \/ switch_state_return
    \/ Continue

SpecSwitch == InitSwitch /\ [][NextSwitch]_vars

\* switch_state has returned 'on' or 'off'
StateReported ==
    /\ op = "switch_state"
    /\ CallEnded
    /\ result.kind = "returned"
    /\ result.val.kind = "str"
    /\ result.val.str \in {"on", "off"}

(* C12: when the latest switch(on) or switch(off) has been acknowledged, a *)
(* switch_state that reports a state reports the state that was switched,  *)
(* for every delivery schedule of the replies.                             *)

C12_StateFollowsAcknowledgedSwitch ==
    (StateReported /\ acked # "none") => result.val.str = acked

----------------------------------------------------------------------------
(* set_timer, set_countdown, activate_timer, delete_timer, timer_query     *)

CMD_TIMER_QUERY == Hex(<<4, 0, 0, 6, 6, 6, 6, 6, 6>>)
CMD_SET_TIMER(timer, repeat_, hour, minute, switch_) ==
    Hex(<<3, 0>>) \o timer \o repeat_ \o hour \o minute \o switch_
        \o Hex([i \in 1..15 |-> 15])
CMD_DELETE_TIMER(timer) ==
    Hex(<<5, 0>>) \o Hex2(timer) \o Hex(<<6, 6, 6, 6, 6, 6>>)

COUNTDOWN_SLOT == 11
COUNTDOWN_REPEAT == 128

\* Python's == between two values of the model
PyEq(a, b) == a.kind = b.kind /\ a = b

\* timer == 11 or timer == 'Countdown'
IsCountdown(timer) ==
    \/ PyEq(timer, IntVal(COUNTDOWN_SLOT))
    \/ PyEq(timer, COUNTDOWN)

\* the datetime set_timer computes before it adds delta_time
\* (lines 458-465), for a time string that has been parsed
set_timer_base(a) ==
    IF IsCountdown(a.timer)
    THEN DateTimeNow + (3600 * ParseHour(a.time)) + (60 * ParseMinute(a.time))
    ELSE DateTime(ParseHour(a.time), ParseMinute(a.time))

\* variant: delta_time is subtracted
set_timer_time_DeltaSubtracted(a) ==
    set_timer_base(a) - EffectiveDelta(a.delta_time)

\* time_ += datetime.timedelta(seconds=delta_time)
set_timer_time(a) == set_timer_base(a) + EffectiveDelta(a.delta_time)

\* the command of set_timer, lines 455-480, when nothing is raised
set_timer_body(a) ==
    CMD_SET_TIMER(
        IF IsCountdown(a.timer) THEN Hex2(COUNTDOWN_SLOT)
        ELSE Hex2(a.timer.int),
        IF IsCountdown(a.timer) THEN Hex2(COUNTDOWN_REPEAT)
        ELSE Hex2(repeat_byte(a.active, a.repeat)),
        Hex2(HourOf(set_timer_time(a))),
        Hex2(MinuteOf(set_timer_time(a))),
        IF a.switch = "on" THEN SWITCH_ON ELSE SWITCH_OFF)

\* the exception set_timer raises before send, "none" when it calls send
set_timer_error(a) ==
    IF ~TimeStrOk(a.time) THEN "ValueError"
    ELSE IF ~IsCountdown(a.timer)
            /\ ~DateTimeOk(ParseHour(a.time), ParseMinute(a.time))
    THEN "ValueError"
    ELSE IF set_timer_time(a) < 0 THEN "OverflowError"
    ELSE IF a.timer.kind # "int" /\ ~IsCountdown(a.timer) THEN "ValueError"
    ELSE assemble_error(a.mac, set_timer_body(a))

Timer(number, active, repeat_, time_, switch_) ==
    [kind |-> "Timer", number |-> number, active |-> active,
     repeat |-> repeat_, time |-> time_, switch |-> switch_]

\* Timer(number, None): the other fields take the default ''
EmptyTimer(number) == Timer(number, None, Str(<<>>), Str(<<>>), Str(""))

\* the datetime of record n of the reply, before hour and minute are read
\* (lines 404-409); negative where the subtraction overflows
timer_query_time(m, k, delta_time) ==
    DateTime(Index(m, k + 2), Index(m, k + 3)) - EffectiveDelta(delta_time)
        - (IF k < 80 THEN 0 ELSE (3600 * now.hour) + (60 * now.minute))

\* the condition of lines 412-417
timer_query_selects(which, number, active, free) ==
    \/ PyEq(which, Str("all"))
    \/ PyEq(which, number)
    \/ PyEq(which, Str("active")) /\ active
    \/ PyEq(which, Str("set")) /\ ~free
    \/ PyEq(which, Str("free")) /\ free

\* the loop of timer_query from record k on (k = n / 8), `data` so far
RECURSIVE timer_query_loop(_, _, _, _, _)
timer_query_loop(m, which, delta_time, k, data) ==
    IF k = TIMER_SLOTS THEN Returned(List(data))
    ELSE
    LET i == TIMER_RECORD * k
    IN  IF i < 80 /\ ~HasIndex(m, i) THEN Raised("IndexError")
        ELSE IF ~HasIndex(m, i + 1) THEN Raised("IndexError")
        ELSE IF ~HasIndex(m, i + 2) THEN Raised("IndexError")
        ELSE
        LET number == IF i < 80 THEN IntVal(Index(m, i)) ELSE COUNTDOWN
            active == timer_active(Index(m, i + 1))
            repeat_ == timer_repeat(Index(m, i + 1))
            switch_ == IF Slice(m, i + 4, i + 8) = <<0, 0, 255, 255>>
                       THEN "on" ELSE "off"
            free == Index(m, i + 2) = NO_TIME
        IN  IF ~free /\ ~HasIndex(m, i + 3) THEN Raised("IndexError")
            ELSE IF ~free /\ ~DateTimeOk(Index(m, i + 2), Index(m, i + 3))
            THEN Raised("ValueError")
            ELSE IF ~free /\ timer_query_time(m, i, delta_time) < 0
            THEN Raised("OverflowError")
            ELSE
            LET t == timer_query_time(m, i, delta_time)
                entry == IF free
                         THEN IF PyEq(which, Str("free")) THEN number
                              ELSE EmptyTimer(number)
                         ELSE Timer(number, Bool(active), Str(repeat_),
                                    Str(TimeStr(HourOf(t), MinuteOf(t))),
                                    Str(switch_))
                data1 == IF timer_query_selects(which, number, active, free)
                         THEN Append(data, entry) ELSE data
            IN  IF PyEq(which, number) THEN Returned(data1[1])
                ELSE timer_query_loop(m, which, delta_time, k + 1, data1)

\* timer_query after send has returned r
timer_query_result(r, which, delta_time) ==
    IF r.success
    THEN timer_query_loop(SliceFrom(decrypt(r.message.bytes), 9), which,
                          delta_time, 0, <<>>)
    ELSE Returned(r.message)

----------------------------------------------------------------------------
(* The timer commands as calls against the device.  A reply arrives during *)
(* the attempt that asked for it or is lost.                               *)

TimerArgs(timer, active, repeat_, time_, switch_, delta_time, which) ==
    [mac |-> Hex(MAC_A), ip |-> IP_A, on_off |-> "none", timer |-> timer,
     active |-> active, repeat |-> repeat_, time |-> time_,
     switch |-> switch_, delta_time |-> delta_time, which |-> which]

WEEKDAYS == <<1, 1, 1, 1, 1, 0, 0>>
WEEKEND == <<0, 0, 0, 0, 0, 1, 1>>
NEVER == <<0, 0, 0, 0, 0, 0, 0>>

\* the arguments the caller gives to set_timer
SetTimerInputs ==
    {TimerArgs(IntVal(3), TRUE, WEEKDAYS, TimeStr(7, 30), "on", None, None),
     TimerArgs(IntVal(3), FALSE, WEEKEND, TimeStr(22, 45), "off",
               IntVal(30), None)}

\* the arguments the caller gives to timer_query
TimerQueryInputs ==
    {TimerArgs(None, FALSE, <<>>, <<>>, "", d, IntVal(3)) :
        d \in {None, IntVal(30)}}
    \cup {TimerArgs(None, FALSE, <<>>, <<>>, "", None, Str(w)) :
            w \in {"all", "free", "set"}}

\* the arguments the caller gives to set_countdown
SetCountdownInputs ==
    {TimerArgs(IntVal(COUNTDOWN_SLOT), TRUE, NEVER, TimeStr(19, 40), "on",
               None, None)}

\* the call reaches send(): its locals are fresh
CallSend(function, command) ==
    /\ inner' = function
    /\ cmd' = command
    /\ pc' = "send_create"
    /\ result' = Running

\* the part of a call that is the same for the timer and absence commands
CommandCall(name, a) ==
    /\ pc = "idle"
    /\ calls < MaxCommandCalls
    /\ op' = name
    /\ args' = a
    /\ before' = [op |-> op, args |-> args, result |-> result]
    /\ dev0' = dev
    /\ FreshCall
    /\ used' = Started(config, repeat)
    /\ UNCHANGED <<repeat, open, data_, dev, inflight, now, tz, fin, fout,
                   lost, acked, config,
                   assigned>>

\* set_timer(socket_, timer, active, repeat, time_, switch, delta_time)
set_timer ==
    \E a \in SetTimerInputs :
        /\ CommandCall("set_timer", a)
        /\ IF set_timer_error(a) = "none"
           THEN CallSend("set_timer", assemble_command(a.mac, set_timer_body(a)))
           ELSE /\ Raise(set_timer_error(a))
                /\ UNCHANGED <<inner, cmd>>

\* set_countdown(socket_, time_, switch, delta_time)
set_countdown ==
    \E a \in SetCountdownInputs :
        /\ CommandCall("set_countdown", a)
        /\ IF set_timer_error(a) = "none"
           THEN CallSend("set_timer", assemble_command(a.mac, set_timer_body(a)))
           ELSE /\ Raise(set_timer_error(a))
                /\ UNCHANGED <<inner, cmd>>

\* timer_query(socket_, which, delta_time)
timer_query ==
    \E a \in TimerQueryInputs :
        /\ CommandCall("timer_query", a)
        /\ IF assemble_error(a.mac, CMD_TIMER_QUERY) = "none"
           THEN CallSend("timer_query", assemble_command(a.mac, CMD_TIMER_QUERY))
           ELSE /\ Raise(assemble_error(a.mac, CMD_TIMER_QUERY))
                /\ UNCHANGED <<inner, cmd>>

\* activate_timer(socket_, timer, activate): the call of timer_query
activate_timer ==
    \E activate \in BOOLEAN, timer \in {3} :
        LET a == TimerArgs(IntVal(timer), activate, <<>>, <<>>, "", None,
                           IntVal(timer))
        IN  /\ CommandCall("activate_timer", a)
            /\ IF assemble_error(a.mac, CMD_TIMER_QUERY) = "none"
               THEN CallSend("timer_query",
                             assemble_command(a.mac, CMD_TIMER_QUERY))
               ELSE /\ Raise(assemble_error(a.mac, CMD_TIMER_QUERY))
                    /\ UNCHANGED <<inner, cmd>>

\* delete_timer(socket_, timer)
delete_timer ==
    LET a == TimerArgs(IntVal(3), FALSE, <<>>, <<>>, "", None, None)
        command == CMD_DELETE_TIMER(a.timer.int)
    IN  /\ CommandCall("delete_timer", a)
        /\ IF assemble_error(a.mac, command) = "none"
           THEN CallSend("delete_timer", assemble_command(a.mac, command))
           ELSE /\ Raise(assemble_error(a.mac, command))
                /\ UNCHANGED <<inner, cmd>>

\* the arguments activate_timer gives to set_timer (line 518)
activate_timer_args(a, data) ==
    TimerArgs(a.timer, a.active, data.repeat.str, data.time.str,
              data.switch.str, None, None)

\* timer_query returns: to the caller, or to activate_timer, which goes on
\* with set_timer up to its call of send
timer_query_return ==
    /\ pc = "send_return"
    /\ inner = "timer_query"
    /\ LET v == timer_query_result(ret, args.which, args.delta_time)
       IN  IF op = "timer_query" \/ v.kind = "raised"
           THEN /\ result' = v
                /\ pc' = "done"
                /\ UNCHANGED <<inner, cmd, data_, s, n, message, ret>>
           ELSE /\ data_' = v.val
                /\ IF v.val.kind # "Timer"
                   THEN /\ Raise("AttributeError")
                        /\ UNCHANGED <<inner, cmd, s, n, message, ret>>
                   ELSE LET a == activate_timer_args(args, v.val)
                        IN  IF set_timer_error(a) # "none"
                            THEN /\ Raise(set_timer_error(a))
                                 /\ UNCHANGED <<inner, cmd, s, n, message,
                                                ret>>
                            ELSE /\ CallSend("set_timer",
                                        assemble_command(a.mac,
                                                         set_timer_body(a)))
                                 /\ s' = "none"
                                 /\ n' = 0
                                 /\ message' = Unbound
                                 /\ ret' = NoRet
    /\ UNCHANGED <<repeat, op, args, open, socket_data, sent, recvs, hist,
                   calls, dev, inflight, now, tz, fin, fout, lost, acked,
                   before, dev0>>
    /\ UNCHANGED <<config, used, assigned>>

\* what the public function returns when set_timer returns `value`:
\* set_countdown (line 503) and activate_timer (line 518) have no return
set_timer_returns(function, value) ==
    IF function = "set_timer" THEN value ELSE None

\* set_timer returns: success or message (lines 482-486)
set_timer_return ==
    /\ pc = "send_return"
    /\ inner = "set_timer"
    /\ result' = Returned(set_timer_returns(op,
                     IF ret.success THEN Bool(TRUE) ELSE ret.message))
    /\ pc' = "done"
    /\ UNCHANGED <<repeat, op, args, cmd, s, open, n, message, ret,
                   socket_data, sent, recvs, hist, calls>>
    /\ UNCHANGED xvars

\* delete_timer returns: success or message (lines 531-535)
delete_timer_return ==
    /\ pc = "send_return"
    /\ inner = "delete_timer"
    /\ result' = IF ret.success THEN Returned(Bool(TRUE))
                 ELSE Returned(ret.message)
    /\ pc' = "done"
    /\ UNCHANGED <<repeat, op, args, cmd, s, open, n, message, ret,
                   socket_data, sent, recvs, hist, calls>>
    /\ UNCHANGED xvars

\* repeat = 2: every frame is sent at most twice
RETRY_ONCE == 2

TZ_NEW_YORK == 18000
LATE_EVENING == [hour |-> 23, minute |-> 30, second |-> 0]

\* a timer programmed in slot 5 before the behaviour starts
SLOT_5 == <<5, 159, 12, 0, 0, 0, 255, 255>>

InitTimers ==
    /\ Idle
    /\ repeat = RETRY_ONCE
    /\ now = LATE_EVENING
    /\ tz = TZ_NEW_YORK
    /\ dev = Device(0, [AllFree EXCEPT ![5] = SLOT_5], AbsenceOff)

NextTimers ==
    \/ set_timer
    \/ set_countdown
    \/ timer_query
    \/ activate_timer
    \/ delete_timer
    \/ send_create
    \/ send_loop
    \/ dev_sendto
    \/ dev_recv
    \/ timer_query_return
    \/ set_timer_return
    \/ delete_timer_return
    \/ Continue

SpecTimers == InitTimers /\ [][NextTimers]_vars

----------------------------------------------------------------------------
(* Vocabulary of the properties of the timer commands *)

ReceiptCommands ==
    {"set_timer", "set_countdown", "activate_timer", "delete_timer"}

\* a command that only needs a receipt has ended after its last send
ReceiptStepDone ==
    /\ op \in ReceiptCommands
    /\ CallEnded
    /\ inner \in {"set_timer", "delete_timer"}
    /\ ret.message.kind # "unbound"
    /\ result.kind = "returned"

\* the call before the current one was `name` and returned True
AfterAcknowledged(name) ==
    /\ before.op = name
    /\ before.result.kind = "returned"
    /\ PyEq(before.result.val, Bool(TRUE))

\* timer_query has ended after a structurally valid reply
QueryAnswered ==
    /\ op = "timer_query"
    /\ CallEnded
    /\ ret.success

ReturnedList == result.kind = "returned" /\ result.val.kind = "list"

(* C11: a command that only needs a receipt returns True when a valid      *)
(* receipt was received and otherwise the failure value of send().         *)

C11_ReceiptCommandsReturnOutcome ==
    ReceiptStepDone =>
        IF ret.success THEN PyEq(result.val, Bool(TRUE))
        ELSE PyEq(result.val, ret.message)

(* C14: set_timer of a slot followed by timer_query of that slot with the  *)
(* same delta_time returns the slot number, active flag, repeat mask, time *)
(* and action that were set.                                               *)

SetThenQuery ==
    /\ QueryAnswered
    /\ AfterAcknowledged("set_timer")
    /\ PyEq(args.which, before.args.timer)
    /\ PyEq(args.delta_time, before.args.delta_time)

C14_SetThenQueryReturnsWhatWasSet ==
    SetThenQuery =>
        /\ result.kind = "returned"
        /\ result.val.kind = "Timer"
        /\ result.val = Timer(before.args.timer, Bool(before.args.active),
                              Str(before.args.repeat), Str(before.args.time),
                              Str(before.args.switch))

(* C15: after an acknowledged delete_timer of a slot, timer_query('free')  *)
(* lists that slot's number and timer_query('set') has no timer of that    *)
(* slot, whatever the other slots hold.                                    *)

DeleteThenQuery(w) ==
    /\ QueryAnswered
    /\ AfterAcknowledged("delete_timer")
    /\ PyEq(args.which, Str(w))

C15_DeletedSlotIsFreeAndNotSet ==
    /\ DeleteThenQuery("free") =>
          /\ ReturnedList
          /\ \E i \in 1..Len(result.val.list) :
                PyEq(result.val.list[i], before.args.timer)
    /\ DeleteThenQuery("set") =>
          /\ ReturnedList
          /\ \A i \in 1..Len(result.val.list) :
                ~PyEq(result.val.list[i].number, before.args.timer)

(* C19: timer_query('all') returns, for every structurally valid reply, 11 *)
(* records in the order slots 1-10 then 'Countdown', and a free slot is    *)
(* reported with no time and no action.                                    *)

C19_AllReturnsElevenRecords ==
    (QueryAnswered /\ PyEq(args.which, Str("all"))) =>
        /\ ReturnedList
        /\ Len(result.val.list) = TIMER_SLOTS
        /\ \A k \in 1..TIMER_SLOTS :
              /\ result.val.list[k].kind = "Timer"
              /\ PyEq(result.val.list[k].number,
                      IF k < COUNTDOWN_SLOT THEN IntVal(k) ELSE COUNTDOWN)
              /\ dev.timers[k][3] = NO_TIME =>
                    result.val.list[k] = EmptyTimer(result.val.list[k].number)

----------------------------------------------------------------------------
(* activate_timer *)

Programmed(rec) == rec[3] # NO_TIME

\* record rec with the active flag set to `activate`
Flagged(rec, activate) ==
    [rec EXCEPT ![2] = repeat_byte(activate, timer_repeat(rec[2]))]

\* activate_timer has been called for a programmed slot
ActivateProgrammed ==
    /\ op = "activate_timer"
    /\ Programmed(dev0.timers[args.timer.int])

\* the set step of activate_timer has received its receipt
SetStepAcknowledged == inner = "set_timer" /\ ret.success

\* the frame of activate_timer: only the active flag of that slot
ActivateFrame ==
    /\ \A k \in 1..TIMER_SLOTS :
          k # args.timer.int => dev.timers[k] = dev0.timers[k]
    /\ dev.timers[args.timer.int] \in
          {dev0.timers[args.timer.int],
           Flagged(dev0.timers[args.timer.int], args.active)}
    /\ SetStepAcknowledged =>
          dev.timers[args.timer.int] =
              Flagged(dev0.timers[args.timer.int], args.active)

(* C18 as stated: activate_timer on a programmed slot changes only that    *)
(* timer's active flag, and when the query step or the set step fails the  *)
(* stored timer is left as it was.                                         *)

C18_FailedStepLeavesTimer ==
    ActivateProgrammed =>
        /\ ActivateFrame
        /\ (CallEnded /\ ~SetStepAcknowledged) => dev = dev0

(* C18 amended: activate_timer on a programmed slot changes only that      *)
(* timer's active flag; while and after the query step the stored timer is *)
(* as it was; when the set step fails the timer is as it was or carries    *)
(* the new active flag already.                                            *)

C18_ActivateChangesOnlyActiveFlag ==
    ActivateProgrammed =>
        /\ ActivateFrame
        /\ inner = "timer_query" => dev = dev0

C18_Witness ==
    /\ ActivateProgrammed
    /\ CallEnded
    /\ SetStepAcknowledged
    /\ dev.timers[args.timer.int] # dev0.timers[args.timer.int]
    /\ dev.timers[args.timer.int][1] = 3

----------------------------------------------------------------------------
(* Absence mode.  A date string 'dd.mm.yyyy hh:mm' is the record of its    *)
(* five numbers.  strptime and timestamp() turn it into seconds since the  *)
(* epoch, fromtimestamp and strftime turn the seconds back; the local zone *)
(* is UTC (time.timezone = 0) or Central European time (time.timezone =    *)
(* -3600) with its summer time of 2024.                                    *)

DateStr(day, month, year, hour, minute) ==
    [day |-> day, month |-> month, year |-> year, hour |-> hour,
     minute |-> minute]

IsLeap(y) == (y % 4 = 0 /\ y % 100 # 0) \/ y % 400 = 0

DaysInMonth(y, m) ==
    IF m = 2 THEN (IF IsLeap(y) THEN 29 ELSE 28)
    ELSE IF m \in {4, 6, 9, 11} THEN 30 ELSE 31

\* days from 1970-01-01 to the date y-m-d of the Gregorian calendar
DaysFromCivil(y, m, d) ==
    LET y1 == IF m <= 2 THEN y - 1 ELSE y
        era == y1 \div 400
        yoe == y1 - (era * 400)
        mp == IF m > 2 THEN m - 3 ELSE m + 9
        doy == (((153 * mp) + 2) \div 5) + d - 1
        doe == (yoe * 365) + (yoe \div 4) - (yoe \div 100) + doy
    IN  (era * 146097) + doe - 719468

\* the date of the day z days after 1970-01-01
CivilFromDays(z) ==
    LET z1 == z + 719468
        era == z1 \div 146097
        doe == z1 - (era * 146097)
        yoe == (doe - (doe \div 1460) + (doe \div 36524) - (doe \div 146096))
                   \div 365
        doy == doe - ((365 * yoe) + (yoe \div 4) - (yoe \div 100))
        mp == ((5 * doy) + 2) \div 153
        d == doy - (((153 * mp) + 2) \div 5) + 1
        m == IF mp < 10 THEN mp + 3 ELSE mp - 9
        y == yoe + (era * 400)
    IN  [year |-> IF m <= 2 THEN y + 1 ELSE y, month |-> m, day |-> d]

\* datetime.strptime(x, '%d.%m.%Y %H:%M') raises ValueError otherwise
strptime_ok(x) ==
    /\ x.month \in 1..12
    /\ x.day \in 1..DaysInMonth(x.year, x.month)
    /\ x.hour \in 0..23
    /\ x.minute \in 0..59

\* a naive datetime as seconds from 1970-01-01 00:00 on its own clock
WallSeconds(x) ==
    (86400 * DaysFromCivil(x.year, x.month, x.day)) + (3600 * x.hour)
        + (60 * x.minute)

TZ_BERLIN == -3600
DST_START == (86400 * DaysFromCivil(2024, 3, 31)) + 3600
DST_END == (86400 * DaysFromCivil(2024, 10, 27)) + 3600

\* seconds the local clock is ahead of UTC at the instant u
UtcOffset(u) ==
    IF tz = TZ_BERLIN /\ DST_START <= u /\ u < DST_END THEN 3600 - tz
    ELSE 0 - tz

\* the reading of the local clock at the instant u (time.localtime)
local(u) == u + UtcOffset(u)

Max(a, b) == IF a > b THEN a ELSE b

\* int(date.timestamp()) of a naive datetime (fold = 0): the instant u with
\* local(u) = t, as datetime._mktime finds it
timestamp(x) ==
    LET t == WallSeconds(x)
        a == local(t) - t
        u1 == t - a
        t1 == local(u1)
        b == IF t1 = t THEN local(u1 - 86400) - (u1 - 86400) ELSE t1 - u1
        u2 == t - b
    IN  IF t1 = t /\ a = b THEN u1
        ELSE IF local(u2) = t THEN u2
        ELSE IF t1 = t THEN u1
        ELSE Max(u1, u2)

\* variant: the instant is shown on the UTC clock
fromtimestamp_Utc(u) ==
    LET date == CivilFromDays(u \div 86400)
    IN  DateStr(date.day, date.month, date.year, HourOf(u), MinuteOf(u))

\* datetime.fromtimestamp(u).strftime('%d.%m.%Y %H:%M')
fromtimestamp(u) ==
    LET t == local(u)
        date == CivilFromDays(t \div 86400)
    IN  DateStr(date.day, date.month, date.year, HourOf(t), MinuteOf(t))

\* f'{v:08x}' as four bytes, and int.from_bytes(b, byteorder='big')
Bytes4(v) ==
    <<(v \div 16777216) % 256, (v \div 65536) % 256, (v \div 256) % 256,
      v % 256>>
FromBytes4(b) ==
    (16777216 * b[1]) + (65536 * b[2]) + (256 * b[3]) + b[4]

CMD_AM_QUERY == Hex(<<10, 8, 8, 8, 8, 8, 8, 8, 8>>)
CMD_SET_AM(active, from_, to_) ==
    Hex(<<9, active>>) \o Hex(Bytes4(from_)) \o Hex(Bytes4(to_))
        \o Hex(<<30>>) \o Hex([i \in 1..14 |-> 14])
CMD_DELETE_AM ==
    Hex(<<9, 0, 0, 0, 0, 0, 0, 0, 0, 0, 14>>) \o Hex([i \in 1..14 |-> 14])

Absence(active, from_, to_) ==
    [kind |-> "Absence", active |-> active, from_ |-> from_, to_ |-> to_]

\* absence_mode_query after send has returned r (lines 546-562)
absence_mode_query_result(r) ==
    IF r.success
    THEN LET m == SliceFrom(decrypt(r.message.bytes), 7)
         IN  IF ~HasIndex(m, 1) THEN Raised("IndexError")
             ELSE IF Index(m, 1) = AM_ACTIVE
             THEN Returned(Absence(Bool(TRUE),
                      Str(fromtimestamp(FromBytes4(Slice(m, 2, 6)))),
                      Str(fromtimestamp(FromBytes4(Slice(m, 6, 10))))))
             ELSE Returned(Absence(Bool(FALSE), None, None))
    ELSE Returned(r.message)


AbsenceArgs(active, from_, to_) ==
    [mac |-> Hex(MAC_A), ip |-> IP_A, on_off |-> "none", active |-> active,
     from_ |-> from_, to_ |-> to_]

NEW_YEAR == DateStr(1, 1, 2024, 0, 0)
NEXT_DAY == DateStr(2, 1, 2024, 0, 0)
SKIPPED_HOUR == DateStr(31, 3, 2024, 2, 30)
SUMMER_EVENING == DateStr(31, 3, 2024, 22, 0)
REPEATED_HOUR == DateStr(27, 10, 2024, 2, 30)
NO_SUCH_DAY == DateStr(30, 2, 2024, 0, 0)

\* the windows the caller gives to set_absence_mode
AbsenceWindows ==
    {<<NEW_YEAR, NEXT_DAY>>, <<SKIPPED_HOUR, SUMMER_EVENING>>,
     <<SUMMER_EVENING, REPEATED_HOUR>>, <<NEW_YEAR, NO_SUCH_DAY>>}

\* set_absence_mode(socket_, active, from_, to_)
set_absence_mode ==
    \E active \in BOOLEAN, w \in AbsenceWindows :
        LET a == AbsenceArgs(active, w[1], w[2])
            command == CMD_SET_AM(IF active THEN AM_ACTIVE ELSE 0,
                                  timestamp(a.from_), timestamp(a.to_))
        IN  /\ CommandCall("set_absence_mode", a)
            /\ IF ~strptime_ok(a.from_) \/ ~strptime_ok(a.to_)
               THEN \* except Exception as e: return e
                    /\ result' = Returned(Exc("ValueError"))
                    /\ pc' = "done"
                    /\ UNCHANGED <<inner, cmd>>
               ELSE IF assemble_error(a.mac, command) = "none"
               THEN CallSend("set_absence_mode",
                             assemble_command(a.mac, command))
               ELSE /\ Raise(assemble_error(a.mac, command))
                    /\ UNCHANGED <<inner, cmd>>

\* delete_absence_mode(socket_)
delete_absence_mode ==
    LET a == AbsenceArgs(FALSE, NEW_YEAR, NEW_YEAR)
    IN  /\ CommandCall("delete_absence_mode", a)
        /\ IF assemble_error(a.mac, CMD_DELETE_AM) = "none"
           THEN CallSend("delete_absence_mode",
                         assemble_command(a.mac, CMD_DELETE_AM))
           ELSE /\ Raise(assemble_error(a.mac, CMD_DELETE_AM))
                /\ UNCHANGED <<inner, cmd>>

\* absence_mode_query(socket_)
absence_mode_query ==
    LET a == AbsenceArgs(FALSE, NEW_YEAR, NEW_YEAR)
    IN  /\ CommandCall("absence_mode_query", a)
        /\ IF assemble_error(a.mac, CMD_AM_QUERY) = "none"
           THEN CallSend("absence_mode_query",
                         assemble_command(a.mac, CMD_AM_QUERY))
           ELSE /\ Raise(assemble_error(a.mac, CMD_AM_QUERY))
                /\ UNCHANGED <<inner, cmd>>

\* set_absence_mode and delete_absence_mode return: True or message
\* (lines 591-595, 605-609)
absence_mode_return ==
    /\ pc = "send_return"
    /\ inner \in {"set_absence_mode", "delete_absence_mode"}
    /\ result' = IF ret.success THEN Returned(Bool(TRUE))
                 ELSE Returned(ret.message)
    /\ pc' = "done"
    /\ UNCHANGED <<repeat, op, args, cmd, s, open, n, message, ret,
                   socket_data, sent, recvs, hist, calls>>
    /\ UNCHANGED xvars

\* absence_mode_query returns
absence_mode_query_return ==
    /\ pc = "send_return"
    /\ inner = "absence_mode_query"
    /\ result' = absence_mode_query_result(ret)
    /\ pc' = "done"
    /\ UNCHANGED <<repeat, op, args, cmd, s, open, n, message, ret,
                   socket_data, sent, recvs, hist, calls>>
    /\ UNCHANGED xvars

InitAbsence ==
    /\ Idle
    /\ repeat = RETRY_ONCE
    /\ now = MIDNIGHT
    /\ tz \in {0, TZ_BERLIN}
    /\ dev = Device(0, AllFree, AbsenceOff)

NextAbsence ==
    \/ set_absence_mode
    \/ delete_absence_mode
    \/ absence_mode_query
    \/ send_create
    \/ send_loop
    \/ dev_sendto
    \/ dev_recv
    \/ absence_mode_return
    \/ absence_mode_query_return
    \/ Continue

SpecAbsence == InitAbsence /\ [][NextAbsence]_vars

\* absence_mode_query has ended after a structurally valid reply
AbsenceAnswered ==
    /\ op = "absence_mode_query"
    /\ CallEnded
    /\ ret.success

\* an acknowledged set_absence_mode(active=True, ...) came just before
AfterActiveWindowSet ==
    /\ AfterAcknowledged("set_absence_mode")
    /\ before.args.active

\* the date string names a minute that the local clock shows
OnLocalClock(x) == local(timestamp(x)) = WallSeconds(x)

(* C16 as stated: set_absence_mode(active=True, from, to) followed by      *)
(* absence_mode_query returns an active window with the from and to that   *)
(* were given; a window the device reports as not active carries no from   *)
(* and to.                                                                 *)

C16_QueryReturnsWindowAsSet ==
    /\ (AbsenceAnswered /\ AfterActiveWindowSet) =>
          result = Returned(Absence(Bool(TRUE), Str(before.args.from_),
                                    Str(before.args.to_)))
    /\ (AbsenceAnswered /\ dev.absence[1] # AM_ACTIVE) =>
          result = Returned(Absence(Bool(FALSE), None, None))

(* C16 amended: the from and to that come back are the ones given where    *)
(* they name a minute of the local clock; a minute the clock skips when    *)
(* summer time starts comes back one hour later.                           *)

C16_QueryReturnsWindowOnLocalClock ==
    /\ (AbsenceAnswered /\ AfterActiveWindowSet) =>
          /\ result.kind = "returned"
          /\ result.val.kind = "Absence"
          /\ result.val.active = Bool(TRUE)
          /\ OnLocalClock(before.args.from_) =>
                result.val.from_ = Str(before.args.from_)
          /\ OnLocalClock(before.args.to_) =>
                result.val.to_ = Str(before.args.to_)
          /\ ~OnLocalClock(before.args.from_) =>
                WallSeconds(result.val.from_.str) =
                    WallSeconds(before.args.from_) + 3600
    /\ (AbsenceAnswered /\ dev.absence[1] # AM_ACTIVE) =>
          result = Returned(Absence(Bool(FALSE), None, None))

C16_Witness ==
    /\ AbsenceAnswered
    /\ AfterActiveWindowSet
    /\ tz = TZ_BERLIN
    /\ before.args.from_ = SUMMER_EVENING
    /\ result.kind = "returned"
    /\ result.val.kind = "Absence"
    /\ result.val.to_ = Str(REPEATED_HOUR)

----------------------------------------------------------------------------
(* A time through set_timer or set_countdown, the device's record and      *)
(* timer_query, with every exchange answered at its first attempt: the     *)
(* frame of the command reaches the device and the device's reply is what  *)
(* send returns.  The clock may move on between the two calls, within the  *)
(* minute.                                                                 *)

Clocks ==
    {[hour |-> c[1], minute |-> c[2], second |-> sec] :
        c \in {<<0, 0>>, <<12, 15>>, <<23, 30>>}, sec \in {0, 40}}

\* time.timezone of the caller's machine
Zones == {0, TZ_BERLIN, TZ_NEW_YORK}

\* the time_ argument: a time of day, or the duration of a countdown
Times ==
    {TimeStr(0, 0), TimeStr(0, 1), TimeStr(7, 30), TimeStr(19, 40),
     TimeStr(23, 59)}

\* the delta_time argument: left out, or seconds from -12 h to +12 h
Deltas ==
    {None} \cup {IntVal(d) : d \in {-43200, -3600, 0, 30, 3600, 43200}}

\* s.sendto and s.recv of one attempt, the device answering at once:
\* the device after the frame, and what send returns
Exchange(d, frame) ==
    LET p == CommandOf(frame)
        d1 == DevApply(d, p)
    IN  [dev |-> d1,
         ret |-> SendSuccess(ReplyFrame(MAC_A, DevReply(d1, p)))]

InitRoundTrip ==
    /\ Idle
    /\ repeat = DEFAULT_REPEAT
    /\ now \in Clocks
    /\ tz \in Zones
    /\ dev = Device(0, AllFree, AbsenceOff)

\* set_timer(socket_, 3, True, '1111100', time_, 'on', delta_time) or
\* set_countdown(socket_, time_, 'on', delta_time)
roundtrip_set ==
    \E name \in {"set_timer", "set_countdown"}, t \in Times, d \in Deltas :
        LET a == TimerArgs(IF name = "set_timer" THEN IntVal(3)
                           ELSE IntVal(COUNTDOWN_SLOT),
                           TRUE,
                           IF name = "set_timer" THEN WEEKDAYS ELSE NEVER,
                           t, "on", d, None)
            x == Exchange(dev, assemble_command(a.mac, set_timer_body(a)))
        IN  /\ pc = "idle"
            /\ calls = 0
            /\ set_timer_error(a) = "none"
            /\ op' = name
            /\ args' = a
            /\ inner' = "set_timer"
            /\ cmd' = assemble_command(a.mac, set_timer_body(a))
            /\ dev' = x.dev
            /\ ret' = x.ret
            /\ sent' = sent + 1
            /\ recvs' = recvs + 1
            /\ calls' = 1
            /\ result' = Returned(set_timer_returns(name, Bool(TRUE)))
            /\ before' = [op |-> op, args |-> args, result |-> result]
            /\ dev0' = dev
            /\ pc' = "tick"
            /\ UNCHANGED <<repeat, s, open, n, message, socket_data, hist,
                           data_, inflight, now, tz, fin, fout, lost, acked,
                           config, used,
                   assigned>>

\* the clock between the two calls: the same minute, the same or a later
\* second
roundtrip_tick ==
    /\ pc = "tick"
    /\ \E sec \in {now.second, 59} : now' = [now EXCEPT !.second = sec]
    /\ pc' = "query"
    /\ UNCHANGED <<repeat, op, args, cmd, s, open, n, message, ret, result,
                   socket_data, sent, recvs, hist, calls, inner, data_, dev,
                   inflight, tz, fin, fout, lost, acked, before, dev0>>
    /\ UNCHANGED <<config, used, assigned>>

\* timer_query(socket_, which, delta_time) for the slot that was set, with
\* the delta_time that was given when it was set
roundtrip_query ==
    /\ pc = "query"
    /\ LET which == IF op = "set_timer" THEN args.timer ELSE COUNTDOWN
           a == TimerArgs(None, FALSE, <<>>, <<>>, "", args.delta_time, which)
           x == Exchange(dev, assemble_command(a.mac, CMD_TIMER_QUERY))
       IN  /\ before' = [op |-> op, args |-> args, result |-> result]
           /\ op' = "timer_query"
           /\ args' = a
           /\ inner' = "timer_query"
           /\ cmd' = assemble_command(a.mac, CMD_TIMER_QUERY)
           /\ dev' = x.dev
           /\ dev0' = dev
           /\ ret' = x.ret
           /\ result' = timer_query_result(x.ret, which, a.delta_time)
    /\ sent' = sent + 1
    /\ recvs' = recvs + 1
    /\ calls' = calls + 1
    /\ pc' = "done"
    /\ UNCHANGED <<repeat, s, open, n, message, socket_data, hist, data_,
                   inflight, now, tz, fin, fout, lost, acked, config, used,
                   assigned>>

NextRoundTrip ==
    \/ roundtrip_set
    \/ roundtrip_tick
    \/ roundtrip_query

SpecRoundTrip == InitRoundTrip /\ [][NextRoundTrip]_vars

\* timer_query has ended after the set command `name`
QueriedAfter(name) ==
    /\ pc = "done"
    /\ op = "timer_query"
    /\ before.op = name

(* C21: for every local time, every countdown duration hh:mm and every     *)
(* delta from -12 h to +12 h, set_countdown followed within the same       *)
(* minute by timer_query of 'Countdown' returns a record whose time is the *)
(* duration that was set.                                                  *)

C21_CountdownReadsBackDuration ==
    QueriedAfter("set_countdown") =>
        /\ result.kind = "returned"
        /\ result.val.kind = "Timer"
        /\ result.val.time = Str(before.args.time)

----------------------------------------------------------------------------
(* assemble_command on its own, for the operation bodies of the public     *)
(* commands: the fixed ones, and those that set_timer, delete_timer and    *)
(* set_absence_mode format from their arguments.                           *)

CMD_HEARTBEAT == Hex(<<97, 85, 147, 38, 84, 4, 4, 4, 4>>)

\* timer arguments: slots, the countdown, and numbers of three and four
\* hex digits
TimerNumbers == {1, 10, COUNTDOWN_SLOT, 255, 256, 4096}

MacArguments == {Hex(MAC_A), BROADCAST_MAC, MAC_MALFORMED}

\* the second argument of assemble_command in the public functions
Bodies ==
    {CMD_SWITCH(SWITCH_ON), CMD_SWITCH(SWITCH_OFF), CMD_GET_STATE,
     CMD_TIMER_QUERY, CMD_AM_QUERY, CMD_DELETE_AM, CMD_HEARTBEAT}
    \cup {CMD_SEARCH(mac) : mac \in MacArguments}
    \cup {CMD_DELETE_TIMER(timer) : timer \in TimerNumbers}
    \cup {set_timer_body(TimerArgs(IntVal(timer), active, WEEKDAYS, time_,
                                   "off", None, None)) :
            timer \in TimerNumbers, active \in BOOLEAN,
            time_ \in {TimeStr(0, 0), TimeStr(23, 59)}}
    \cup {CMD_SET_AM(active, timestamp(w[1]), timestamp(w[2])) :
            active \in {0, AM_ACTIVE},
            w \in {<<NEW_YEAR, NEXT_DAY>>, <<SUMMER_EVENING, REPEATED_HOUR>>}}

InitAssemble ==
    /\ Idle
    /\ repeat = DEFAULT_REPEAT
    /\ now = MIDNIGHT
    /\ tz \in {0, TZ_BERLIN}
    /\ dev = NoDevice

\* cmd = assemble_command(mac, command)
assemble ==
    /\ pc = "idle"
    /\ \E mac \in MacArguments, command \in Bodies :
          /\ args' = [mac |-> mac, ip |-> IP_A, on_off |-> "none"]
          /\ fin' = Str(command)
          /\ IF assemble_error(mac, command) = "none"
             THEN /\ cmd' = assemble_command(mac, command)
                  /\ result' = Returned(Str(assemble_command(mac, command)))
                  /\ pc' = "done"
             ELSE /\ cmd' = <<>>
                  /\ Raise(assemble_error(mac, command))
    /\ op' = "assemble_command"
    /\ UNCHANGED <<repeat, s, open, n, message, ret, socket_data, sent,
                   recvs, hist, calls, inner, data_, dev, inflight, now, tz,
                   fout, lost, acked, before, dev0>>
    /\ UNCHANGED <<config, used, assigned>>

NextAssemble == assemble

SpecAssemble == InitAssemble /\ [][NextAssemble]_vars

\* assemble_command has returned a frame
FrameBuilt ==
    /\ op = "assemble_command"
    /\ pc = "done"
    /\ result.kind = "returned"

\* the hex digits of the frame after the plaintext prefix and the length
\* byte, and the two digits of the length byte
BlockDigits == SubSeq(cmd, Len(CMD_INIT(args.mac)) + 3, Len(cmd))
LengthDigits ==
    SubSeq(cmd, Len(CMD_INIT(args.mac)) + 1, Len(CMD_INIT(args.mac)) + 2)

(* C22: every frame that assemble_command builds for a public command has *)
(* an encrypted block whose length is a multiple of 16 bytes and fits one  *)
(* byte, and the length byte before the block is that block's length; for  *)
(* every operation body the commands produce, not only the fixed ones.     *)

C22_FrameCarriesBlockLength ==
    FrameBuilt =>
        /\ Len(BlockDigits) % (2 * BLOCK_SIZE) = 0
        /\ Len(BlockDigits) \div 2 \in 1..255
        /\ LengthDigits = Hex(<<Len(BlockDigits) \div 2>>)
        /\ BlockDigits = Hex(encrypt(FromHex(CMD_HEADER \o fin.str)))

C22_Witness ==
    /\ FrameBuilt
    /\ fin.str = set_timer_body(TimerArgs(IntVal(10), TRUE, WEEKDAYS,
                                          TimeStr(23, 59), "off", None, None))
    /\ Len(BlockDigits) = 4 * BLOCK_SIZE
    /\ LengthDigits = <<2, 0>>

----------------------------------------------------------------------------
(* The delta_time argument, in the specification SpecRoundTrip *)

\* set_timer for a slot 1-10 has stored its record
SlotSet ==
    /\ pc = "tick"
    /\ op = "set_timer"

\* the record of the slot that set_timer was called for, and the one that
\* timer_query was called for
RecordSet == dev.timers[args.timer.int]
RecordQueried == dev.timers[args.which.int]

\* a time of day shifted by a number of seconds
Shifted(hour, minute, seconds) ==
    TimeStr(HourOf(DateTime(hour, minute) + seconds),
            MinuteOf(DateTime(hour, minute) + seconds))

(* C23: when the caller passes a delta_time to set_timer or timer_query,   *)
(* that value is the one applied to hour and minute, for every value       *)
(* including 0; time.timezone is applied only when no delta_time was       *)
(* passed.                                                                 *)

C23_PassedDeltaIsApplied ==
    /\ SlotSet =>
          TimeStr(RecordSet[3], RecordSet[4]) =
              Shifted(ParseHour(args.time), ParseMinute(args.time),
                      IF args.delta_time.kind = "int"
                      THEN args.delta_time.int ELSE tz)
    /\ (QueriedAfter("set_timer") /\ result.kind = "returned") =>
          result.val.time.str =
              Shifted(RecordQueried[3], RecordQueried[4],
                      IF args.delta_time.kind = "int"
                      THEN 0 - args.delta_time.int ELSE 0 - tz)

----------------------------------------------------------------------------
(* The origin of the reply that send returns, in the specification Spec:   *)
(* recv delivers whatever datagram reaches the bound port.                 *)

\* the MAC that a reply frame carries at offsets 2..7: the device that
\* built the frame
SenderOf(d) == SubSeq(d, 3, Min(8, Len(d)))

\* send has returned (True, message[9:]) to switch or switch_state, for a
\* datagram that holds the 9 bytes before the payload
SendSucceeded ==
    /\ SendReturned
    /\ ret.success
    /\ Len(LastOf(hist).dgram) >= 9

(* C24: the payload that send returns as a success was sent by the         *)
(* addressed device in answer to the frame of this call; a datagram from   *)
(* another sender, or a late reply to an earlier command or to another     *)
(* operation, is never returned as this command's result.  Stated for the  *)
(* datagrams long enough to name their sender.                             *)

C24_SuccessIsFromAddressedDevice ==
    SendSucceeded =>
        /\ LastOf(hist).out = "valid"
        /\ ret.message = Bytes(SliceFrom(LastOf(hist).dgram, 9))
        /\ SenderOf(LastOf(hist).dgram) = FromHex(args.mac)

----------------------------------------------------------------------------
(* The selectors 'active', 'set' and 'free' of timer_query applied to one  *)
(* reply payload.  The payload is the device's timer table; slots 1, 2 and *)
(* the countdown slot hold any of four records, the others are free.       *)

\* a free slot whose active bit is set
FlaggedFreeSlot(k) == [FreeSlot(k) EXCEPT ![2] = repeat_byte(TRUE, NEVER)]

\* a slot programmed for 07:30, Monday to Friday, active or not
ProgrammedSlot(k, active) ==
    <<k, repeat_byte(active, WEEKDAYS), 7, 30, 0, 0, 255, 255>>

RecordsOf(k) ==
    {FreeSlot(k), FlaggedFreeSlot(k), ProgrammedSlot(k, TRUE),
     ProgrammedSlot(k, FALSE)}

TimerTables ==
    {[AllFree EXCEPT ![1] = r1, ![2] = r2, ![COUNTDOWN_SLOT] = r11] :
        r1 \in RecordsOf(1), r2 \in RecordsOf(2),
        r11 \in RecordsOf(COUNTDOWN_SLOT)}

Selectors == {"active", "set", "free"}

InitSelect ==
    /\ Idle
    /\ repeat = DEFAULT_REPEAT
    /\ now = MIDNIGHT
    /\ tz = 0
    /\ dev \in {Device(0, timers, AbsenceOff) : timers \in TimerTables}

\* timer_query(socket_, which) for a selector, answered at the first
\* attempt; fout keeps the result of each selector that has been asked
timer_query_which ==
    \E w \in Selectors :
        LET a == TimerArgs(None, FALSE, <<>>, <<>>, "", None, Str(w))
            x == Exchange(dev, assemble_command(a.mac, CMD_TIMER_QUERY))
            v == timer_query_result(x.ret, a.which, a.delta_time)
        IN  /\ pc \in {"idle", "done"}
            /\ w \notin (IF fout = None THEN {} ELSE DOMAIN fout.of)
            /\ op' = "timer_query"
            /\ args' = a
            /\ inner' = "timer_query"
            /\ cmd' = assemble_command(a.mac, CMD_TIMER_QUERY)
            /\ ret' = x.ret
            /\ result' = v
            /\ fout' = [kind |-> "results",
                        of |-> IF fout = None THEN (w :> v)
                               ELSE (w :> v) @@ fout.of]
            /\ sent' = sent + 1
            /\ recvs' = recvs + 1
            /\ calls' = calls + 1
            /\ pc' = "done"
            /\ UNCHANGED <<repeat, s, open, n, message, socket_data, hist,
                           data_, dev, inflight, now, tz, fin, lost, acked,
                           before, dev0>>
            /\ UNCHANGED <<config, used, assigned>>

NextSelect == timer_query_which

SpecSelect == InitSelect /\ [][NextSelect]_vars

\* selector w has been asked and timer_query returned a list
Listed(w) ==
    /\ fout # None
    /\ w \in DOMAIN fout.of
    /\ fout.of[w].kind = "returned"
    /\ fout.of[w].val.kind = "list"

\* the entries of the list returned for selector w
EntriesOf(w) ==
    {fout.of[w].val.list[i] : i \in 1..Len(fout.of[w].val.list)}

\* the slots reported for selector w: 'free' lists numbers, the others
\* list records
SlotsOf(w) ==
    {IF e.kind = "Timer" THEN e.number ELSE e : e \in EntriesOf(w)}

(* C25: for any single timer reply payload, every record that timer_query  *)
(* returns under 'active' is a programmed timer with active = True, so the *)
(* slots reported by 'active' are a subset of those reported by 'set', and *)
(* no slot is reported by both 'set' and 'free'.                           *)

C25_ActiveWithinSetAndSetNotFree ==
    /\ Listed("active") =>
          \A e \in EntriesOf("active") :
              /\ e.kind = "Timer"
              /\ e.active = Bool(TRUE)
              /\ TimeStrOk(e.time.str)
    /\ (Listed("active") /\ Listed("set")) =>
          SlotsOf("active") \subseteq SlotsOf("set")
    /\ (Listed("set") /\ Listed("free")) =>
          SlotsOf("set") \cap SlotsOf("free") = {}

----------------------------------------------------------------------------
(* A second thread that assigns to the module globals while the caller     *)
(* thread runs switch and switch_state against the device.  An assignment  *)
(* to a global is one step; the caller reads each global where the code    *)
(* reads it.                                                               *)

\* the values the second thread assigns
DeviceCodes == {SWS_A1, DIS_120}
PacketNumbers == {Hex(<<255, 255>>), Hex(<<0, 1>>)}
Ports == {DEFAULTS.udp_port, DEFAULTS.udp_port + 1}
Timeouts == {DEFAULTS.timeout, DEFAULTS.timeout + 3}
Repeats == {RETRY_ONCE, DEFAULT_REPEAT}

\* a public call has started and has not ended
CallInProgress == op # "none" /\ pc \notin {"idle", "done"}

\* wifisocket.device = ..., wifisocket.udp_port = ..., and so on
configure ==
    /\ assigned < MaxAssignments
    /\ assigned' = assigned + 1
    /\ \/ \E v \in DeviceCodes \ {device} :
             /\ config' = [config EXCEPT !.device = v]
             /\ UNCHANGED repeat
       \/ \E v \in PacketNumbers \ {packet} :
             /\ config' = [config EXCEPT !.packet = v]
             /\ UNCHANGED repeat
       \/ \E v \in Ports \ {udp_port} :
             /\ config' = [config EXCEPT !.udp_port = v]
             /\ UNCHANGED repeat
       \/ \E v \in Timeouts \ {timeout} :
             /\ config' = [config EXCEPT !.timeout = v]
             /\ UNCHANGED repeat
       \/ \E v \in Repeats \ {repeat} :
             /\ repeat' = v
             /\ UNCHANGED config
    /\ used' = [used EXCEPT !.changed = @ \/ CallInProgress]
    /\ UNCHANGED <<pc, op, args, cmd, s, open, n, message, ret, result,
                   socket_data, sent, recvs, hist, calls, inner, data_, dev,
                   inflight, now, tz, fin, fout, lost, acked, before, dev0>>

InitConfig ==
    /\ Idle
    /\ repeat = DEFAULT_REPEAT
    /\ now = MIDNIGHT
    /\ tz = 0
    /\ dev = Device(0, AllFree, AbsenceOff)

NextConfig ==
    \/ switch
    \/ switch_state
    \/ send_create
    \/ send_loop
    \/ dev_sendto
    \/ dev_recv
    \/ switch_return
    \/ switch_state_return
    \/ Continue
    \/ configure

SpecConfig == InitConfig /\ [][NextConfig]_vars

\* the header that the assembled frame carries in its encrypted block:
\* 00, packet, device
HeaderOf(frame) == SubSeq(decrypt(FromHex(BlockDigits)), 1, 7)

\* the header for the settings in force when the call started
HeaderAtStart ==
    FromHex(Hex(<<0>>) \o used.start.config.packet
                \o used.start.config.device)

\* the call holds a value that was not in force when it started: in the
\* frame, in the endpoint, in `address` or in range(repeat)
HoldsLaterValue ==
    \/ cmd # <<>> /\ HeaderOf(cmd) # HeaderAtStart
    \/ /\ s # "none"
       /\ used.endpoint # [timeout |-> used.start.config.timeout,
                           port |-> used.start.config.udp_port]
    \/ /\ used.address # 0
       /\ used.address # used.start.config.udp_port
    \/ /\ used.range # 0
       /\ used.range # used.start.repeat

(* C26: when another thread changes the module-level configuration        *)
(* (device, packet, udp_port, timeout, repeat) while a command call is in  *)
(* progress, the call can act on a mix of old and new values, because the  *)
(* values are read at different points of the call; with no concurrent     *)
(* change, every call uses the values in force when it started.  As an     *)
(* invariant: a call holds a value other than the one in force at its      *)
(* start only if the configuration changed during the call.                *)

C26_MixOnlyAfterConcurrentChange ==
    (SendCall /\ HoldsLaterValue) => used.changed

\* a frame built with the old device code has been sent to the new port
C26_Witness ==
    /\ SendCall
    /\ sent > 0
    /\ SubSeq(HeaderOf(cmd), 4, 7) = FromHex(used.start.config.device)
    /\ device # used.start.config.device
    /\ used.address # used.start.config.udp_port
    /\ used.address = udp_port

====
